------------------------- MODULE FeedDriver_proofs --------------------------
(***************************************************************************)
(* Proofs about FeedDriver: the scan reconciler keeps no entry beyond its  *)
(* window, and every other class does exactly what the scan does.  Each    *)
(* class has an abstraction to (or from) the state of the scan, and its    *)
(* calls are shown to commute with those of the scan.                      *)
(***************************************************************************)
EXTENDS FeedDriver, FiniteSetTheorems, WellFoundedInduction, TLAPS

----------------------------------------------------------------------------
(* Numbers.                                                                *)

(* Division with a remainder.                                              *)
LEMMA Quotient ==
  ASSUME NEW c \in Nat, c >= 1, NEW x \in Nat
  PROVE  \E a \in Nat, b \in 0..c - 1 : x = c * a + b /\ x \div c = a /\ x % c = b
  <1> DEFINE a == x \div c
             b == x % c
  <1>1. a \in Nat /\ b \in 0..c - 1
    BY Z3
  <1>2. x = c * a + b
    <2>1. a \in Int /\ b \in Int /\ a = x \div c /\ b = x % c
      BY <1>1
    <2> HIDE DEF a, b
    <2> QED BY <2>1, Z3
  <1> QED BY <1>1, <1>2

(* A set of numbers has a least one: the finite parts T \cap 0..n of the   *)
(* set are well-founded under inclusion.                                   *)
LEMMA LeastNumber ==
  ASSUME NEW T, T \subseteq Nat, T # {}
  PROVE  \E n \in T : \A m \in T : n <= m
  <1> DEFINE F == {T \cap (0..n) : n \in T}
  <1>1. \A n \in T : IsFiniteSet(T \cap (0..n))
    <2> SUFFICES ASSUME NEW n \in T PROVE IsFiniteSet(T \cap (0..n))
      OBVIOUS
    <2>1. IsFiniteSet(0..n)
      BY FS_Interval
    <2> QED BY <2>1, FS_Intersection
  <1>2. F \subseteq FiniteSubsetsOf(Nat) /\ F # {}
    BY <1>1 DEF FiniteSubsetsOf
  <1>3. IsWellFoundedOn(StrictSubsetOrdering(Nat), FiniteSubsetsOf(Nat))
    BY FS_StrictSubsetOrderingWellFounded
  <1>4. \E x \in F : \A y \in F : ~(<<y, x>> \in StrictSubsetOrdering(Nat))
    <2> HIDE DEF F
    <2> QED BY <1>2, <1>3, WFMin
  <1>5. PICK n \in T : \A y \in F : ~(<<y, T \cap (0..n)>> \in StrictSubsetOrdering(Nat))
    BY <1>4
  <1>6. ASSUME NEW m \in T, m < n
        PROVE  FALSE
    <2>1. /\ T \cap (0..m) \in F /\ T \cap (0..m) \subseteq T \cap (0..n)
          /\ n \in T \cap (0..n) /\ n \notin T \cap (0..m)
      BY <1>6
    <2> QED BY <1>5, <2>1 DEF StrictSubsetOrdering
  <1> QED BY <1>6

----------------------------------------------------------------------------
(* The entry.                                                              *)

Entry ==
  [first_ts : Nat, fed : [Feeds -> Values \cup {NoExec}], alerted : BOOLEAN]
Timed == [feed : Feeds, id : Ids, val : Values, ts : Nat \ {0}]

(* An entry without executions is not alerted and has no first_ts.         *)
LEMMA BlankEntry == Blank \in Entry /\ Blank.first_ts = 0
  BY DEF Blank, Entry

(* onFeed dates an entry once and keeps the date from then on.             *)
LEMMA UpdatedEntry ==
  ASSUME NEW ent \in Entry, NEW e \in Timed
  PROVE  /\ Updated(ent, e) \in Entry
         /\ Updated(ent, e).first_ts = IF ent.first_ts = 0 THEN e.ts ELSE ent.first_ts
  <1> DEFINE A == Absorb(ent, e)
  <1>1. /\ A = [first_ts |-> IF ent.first_ts = 0 THEN e.ts ELSE ent.first_ts,
               fed |-> [ent.fed EXCEPT ![e.feed] = e.val], alerted |-> ent.alerted]
    <2>1. PICK a, b, c : ent = [first_ts |-> a, fed |-> b, alerted |-> c]
      BY DEF Entry
    <2>2. ent.first_ts = a /\ ent.fed = b /\ ent.alerted = c
      BY <2>1
    <2>3. A = [[ent EXCEPT !.first_ts = IF a = 0 THEN e.ts ELSE a] EXCEPT !.fed = [b EXCEPT ![e.feed] = e.val]]
      BY <2>1, <2>2 DEF Absorb
    <2> QED BY <2>1, <2>2, <2>3
  <1>2. A.fed \in [Feeds -> Values \cup {NoExec}] /\ A.first_ts \in Nat /\ A.alerted \in BOOLEAN
    BY <1>1 DEF Entry, Timed
  <1>3. Updated(ent, e) = [first_ts |-> A.first_ts, fed |-> A.fed,
                           alerted |-> A.alerted \/ Raises(ent, e)]
    <2> HIDE DEF A
    <2>1. A = [first_ts |-> A.first_ts, fed |-> A.fed, alerted |-> A.alerted]
      BY <1>1
    <2>2. Updated(ent, e) = [A EXCEPT !.alerted = @ \/ Raises(ent, e)]
      BY DEF Updated, A
    <2> QED BY <2>1, <2>2
  <1>4. A.first_ts = IF ent.first_ts = 0 THEN e.ts ELSE ent.first_ts
    BY <1>1
  <1> HIDE DEF A
  <1> QED BY <1>2, <1>3, <1>4 DEF Entry

----------------------------------------------------------------------------
(* Every class works with the Entry of FeedEntry.                          *)

LEMMA ScanEntry ==
  /\ Scan!Blank = Blank
  /\ \A ent : Scan!expireAt(ent) = expireAt(ent)
  /\ \A e, t : Scan!TooLate(e, t) = TooLate(e, t)
  /\ \A ent, e : Scan!Updated(ent, e) = Updated(ent, e) /\ Scan!Raised(ent, e) = Raised(ent, e)
  BY DEF Blank, TooLate, expireAt, Updated, Raised, Raises, Absorb, anyMismatch,
         Scan!Blank, Scan!TooLate, Scan!expireAt, Scan!Updated, Scan!Raised,
         Scan!Raises, Scan!Absorb, Scan!anyMismatch

LEMMA UHeapEntry ==
  /\ UHeap!Blank = Blank
  /\ \A ent : UHeap!expireAt(ent) = expireAt(ent)
  /\ \A e, t : UHeap!TooLate(e, t) = TooLate(e, t)
  /\ \A ent, e : UHeap!Updated(ent, e) = Updated(ent, e) /\ UHeap!Raised(ent, e) = Raised(ent, e)
  /\ \A ent, id : UHeap!Exp(ent, id) = Exp(ent, id)
  BY DEF Blank, TooLate, expireAt, Updated, Raised, Raises, Absorb, anyMismatch, Exp,
         UHeap!Blank, UHeap!TooLate, UHeap!expireAt, UHeap!Updated, UHeap!Raised,
         UHeap!Raises, UHeap!Absorb, UHeap!anyMismatch, UHeap!Exp

LEMMA DHeapEntry ==
  /\ DHeap!Blank = Blank
  /\ \A ent : DHeap!expireAt(ent) = expireAt(ent)
  /\ \A e, t : DHeap!TooLate(e, t) = TooLate(e, t)
  /\ \A ent, e : DHeap!Updated(ent, e) = Updated(ent, e) /\ DHeap!Raised(ent, e) = Raised(ent, e)
  /\ \A ent, id : DHeap!Exp(ent, id) = Exp(ent, id)
  BY DEF Blank, TooLate, expireAt, Updated, Raised, Raises, Absorb, anyMismatch, Exp,
         DHeap!Blank, DHeap!TooLate, DHeap!expireAt, DHeap!Updated, DHeap!Raised,
         DHeap!Raises, DHeap!Absorb, DHeap!anyMismatch, DHeap!Exp

LEMMA DWheelEntry ==
  /\ DWheel!Blank = Blank
  /\ \A ent : DWheel!expireAt(ent) = expireAt(ent)
  /\ \A e, t : DWheel!TooLate(e, t) = TooLate(e, t)
  /\ \A ent, e : DWheel!Updated(ent, e) = Updated(ent, e) /\ DWheel!Raised(ent, e) = Raised(ent, e)
  BY DEF Blank, TooLate, expireAt, Updated, Raised, Raises, Absorb, anyMismatch,
         DWheel!Blank, DWheel!TooLate, DWheel!expireAt, DWheel!Updated, DWheel!Raised,
         DWheel!Raises, DWheel!Absorb, DWheel!anyMismatch

LEMMA FHeapEntry ==
  /\ FHeap!Blank = Blank
  /\ \A ent : FHeap!expireAt(ent) = expireAt(ent)
  /\ \A e, t : FHeap!TooLate(e, t) = TooLate(e, t)
  /\ \A ent, e : FHeap!Updated(ent, e) = Updated(ent, e) /\ FHeap!Raised(ent, e) = Raised(ent, e)
  /\ \A ent, id : FHeap!Exp(ent, id) = Exp(ent, id)
  BY DEF Blank, TooLate, expireAt, Updated, Raised, Raises, Absorb, anyMismatch, Exp,
         FHeap!Blank, FHeap!TooLate, FHeap!expireAt, FHeap!Updated, FHeap!Raised,
         FHeap!Raises, FHeap!Absorb, FHeap!anyMismatch, FHeap!Exp

LEMMA FWheelEntry ==
  /\ FWheel!Blank = Blank
  /\ \A ent : FWheel!expireAt(ent) = expireAt(ent)
  /\ \A e, t : FWheel!TooLate(e, t) = TooLate(e, t)
  /\ \A ent, e : FWheel!Updated(ent, e) = Updated(ent, e) /\ FWheel!Raised(ent, e) = Raised(ent, e)
  BY DEF Blank, TooLate, expireAt, Updated, Raised, Raises, Absorb, anyMismatch,
         FWheel!Blank, FWheel!TooLate, FWheel!expireAt, FWheel!Updated, FWheel!Raised,
         FWheel!Raises, FWheel!Absorb, FWheel!anyMismatch

----------------------------------------------------------------------------
(* The scan.                                                               *)

Obj(D, lt, n) == [by_id |-> D, last_timer |-> lt, alerts |-> n]
Old(D, id) == IF id \in DOMAIN D THEN D[id] ELSE Blank
Put(D, e) == [id \in DOMAIN D \cup {e.id} |-> IF id = e.id THEN Updated(Old(D, e.id), e) ELSE D[id]]
Kept(D, t) == [id \in {j \in DOMAIN D : t < expireAt(D[j])} |-> D[id]]

(* Between two timers every entry has yet to expire and is dated before    *)
(* the next timer.                                                         *)
Dated(D, lt) ==
  /\ D = [id \in DOMAIN D |-> D[id]] /\ DOMAIN D \subseteq Ids
  /\ \A id \in DOMAIN D :
       /\ D[id] \in Entry /\ D[id].first_ts # 0
       /\ lt < expireAt(D[id]) /\ D[id].first_ts < lt + Window

(* What the calls of the scan do to its parts.                             *)
LEMMA ScanTimerCall ==
  ASSUME NEW D, NEW lt \in Nat, NEW n, NEW t \in Nat, Dated(D, lt)
  PROVE  Scan!onTimer(Obj(D, lt, n), t) = Obj(Kept(D, t), t, n)
  <1>1. Obj(D, lt, n).by_id = D /\ Obj(D, lt, n).last_timer = lt /\ Obj(D, lt, n).alerts = n
    BY DEF Obj
  <1>2. {id \in DOMAIN D : ~Scan!isExpired(D[id], t)} = {id \in DOMAIN D : t < expireAt(D[id])}
    <2>1. \A id \in DOMAIN D : ~Scan!isExpired(D[id], t) <=> t < expireAt(D[id])
      BY WindowAssumption DEF Dated, Scan!isExpired, Scan!expireAt, expireAt, Entry
    <2> QED BY <2>1
  <1>3. Scan!onTimer(Obj(D, lt, n), t) = [Obj(D, lt, n) EXCEPT !.last_timer = t, !.by_id = Kept(D, t)]
    BY <1>1, <1>2 DEF Scan!onTimer, Kept
  <1> QED BY <1>3 DEF Obj

LEMMA ScanFeedCall ==
  ASSUME NEW D, NEW lt, NEW n, NEW e
  PROVE  Scan!onFeed(Obj(D, lt, n), e) =
           IF TooLate(e, lt) THEN Obj(D, lt, n)
           ELSE Obj(Put(D, e), lt, n + Raised(Old(D, e.id), e))
  <1>1. Obj(D, lt, n).by_id = D /\ Obj(D, lt, n).last_timer = lt /\ Obj(D, lt, n).alerts = n
    BY DEF Obj
  <1>2. Scan!getOrCreate(Obj(D, lt, n), e.id) = Old(D, e.id)
    BY <1>1, ScanEntry DEF Scan!getOrCreate, Old
  <1>3. Scan!Stored(Obj(D, lt, n), e) = Obj(Put(D, e), lt, n + Raised(Old(D, e.id), e))
    <2>1. PICK P : P = Put(D, e)
      OBVIOUS
    <2>2. PICK r : r = n + Raised(Old(D, e.id), e)
      OBVIOUS
    <2>3. Scan!Stored(Obj(D, lt, n), e) = [Obj(D, lt, n) EXCEPT !.by_id = P, !.alerts = r]
      BY <1>1, <1>2, <2>1, <2>2, ScanEntry DEF Scan!Stored, Put
    <2> QED BY <2>1, <2>2, <2>3 DEF Obj
  <1> QED BY <1>1, <1>3, ScanEntry DEF Scan!onFeed

LEMMA DatedAfterTimer ==
  ASSUME NEW D, NEW lt \in Nat, Dated(D, lt)
  PROVE  Dated(Kept(D, lt + Window), lt + Window)
  BY WindowAssumption DEF Dated, Kept, Entry, expireAt

LEMMA DatedAfterFeed ==
  ASSUME NEW D, NEW lt \in Nat, Dated(D, lt),
         NEW e \in Timed, e.ts < lt + Window, ~TooLate(e, lt)
  PROVE  Dated(Put(D, e), lt)
  <1>1. Old(D, e.id) \in Entry /\ (e.id \notin DOMAIN D => Old(D, e.id).first_ts = 0)
    BY BlankEntry DEF Old, Dated
  <1>2. /\ Updated(Old(D, e.id), e) \in Entry
        /\ Updated(Old(D, e.id), e).first_ts
             = IF Old(D, e.id).first_ts = 0 THEN e.ts ELSE Old(D, e.id).first_ts
    BY <1>1, UpdatedEntry
  <1>3. e.ts \in Nat \ {0} /\ e.id \in Ids /\ lt < e.ts + Window
    BY WindowAssumption DEF TooLate, Timed
  <1>4. PICK u : u = Updated(Old(D, e.id), e)
    OBVIOUS
  <1>5. u \in Entry /\ u.first_ts # 0 /\ lt < expireAt(u) /\ u.first_ts < lt + Window
    BY <1>1, <1>2, <1>3, <1>4, WindowAssumption DEF Dated, Old, expireAt
  <1>6. Put(D, e) = [id \in DOMAIN D \cup {e.id} |-> IF id = e.id THEN u ELSE D[id]]
    BY <1>4 DEF Put
  <1> QED BY <1>3, <1>5, <1>6 DEF Dated

(* The driver and the scan: a timer comes before every event it is due     *)
(* for, so that events are delivered before the next timer.                *)
ScanInv ==
  /\ scan = Obj(by_id, last_timer, scan.alerts)
  /\ now \in Nat /\ last_timer \in Nat /\ next_timer = last_timer + Window
  /\ phase = "flush" => ev = NoEvent
  /\ ev # NoEvent => ev \in Events /\ ev.ts <= now
  /\ ev = NoEvent => now < next_timer
  /\ Dated(by_id, last_timer)
  /\ \A id \in DOMAIN by_id : by_id[id].first_ts <= now

LEMMA EventsTimed == Events \subseteq Timed
  BY WindowAssumption DEF Events, Timed

LEMMA ScanInit == Init => ScanInv
  <1> SUFFICES ASSUME Init PROVE ScanInv
    OBVIOUS
  <1>1. scan = Obj([id \in {} |-> Blank], 0, 0)
    BY ScanEntry DEF Init, Scan!New, Obj
  <1>2. by_id = [id \in {} |-> Blank] /\ last_timer = 0 /\ scan.alerts = 0
    BY <1>1 DEF Obj, by_id, last_timer
  <1>3. now = 0 /\ next_timer = Window /\ ev = NoEvent /\ phase = "feed"
    BY DEF Init
  <1> QED BY <1>1, <1>2, <1>3, WindowAssumption DEF ScanInv, Dated

(* What a timer and a delivered event do to the scan.                      *)
LEMMA ScanTimer ==
  ASSUME ScanInv, onTimer(next_timer)
  PROVE  /\ scan' = Obj(Kept(by_id, next_timer), next_timer, scan.alerts)
         /\ by_id' = Kept(by_id, next_timer) /\ last_timer' = next_timer
         /\ scan'.alerts = scan.alerts
  <1>1. scan' = Obj(Kept(by_id, next_timer), next_timer, scan.alerts)
    <2>1. PICK D, lt, n : D = by_id /\ lt = last_timer /\ n = scan.alerts
      OBVIOUS
    <2>2. lt \in Nat /\ next_timer \in Nat /\ Dated(D, lt)
      BY <2>1, WindowAssumption DEF ScanInv
    <2>3. Scan!onTimer(Obj(D, lt, n), next_timer) = Obj(Kept(D, next_timer), next_timer, n)
      BY <2>2, ScanTimerCall
    <2>4. scan = Obj(D, lt, n) /\ scan' = Scan!onTimer(scan, next_timer)
      BY <2>1 DEF ScanInv, onTimer
    <2> QED BY <2>1, <2>3, <2>4
  <1> QED BY <1>1 DEF Obj, by_id, last_timer

LEMMA ScanFeed ==
  ASSUME ScanInv, onFeed(ev), ev # NoEvent
  PROVE  IF TooLate(ev, last_timer) THEN scan' = scan
         ELSE /\ scan' = Obj(Put(by_id, ev), last_timer,
                             scan.alerts + Raised(Old(by_id, ev.id), ev))
              /\ by_id' = Put(by_id, ev) /\ last_timer' = last_timer
              /\ scan'.alerts = scan.alerts + Raised(Old(by_id, ev.id), ev)
  <1>1. PICK D, lt, n : D = by_id /\ lt = last_timer /\ n = scan.alerts
    OBVIOUS
  <1>2. lt \in Nat /\ ev \in Timed /\ scan = Obj(D, lt, n) /\ scan' = Scan!onFeed(scan, ev)
    BY <1>1, EventsTimed DEF ScanInv, onFeed
  <1>3. scan' = IF TooLate(ev, lt) THEN scan
                ELSE Obj(Put(D, ev), lt, n + Raised(Old(D, ev.id), ev))
    <2>1. Scan!onFeed(Obj(D, lt, n), ev)
            = IF TooLate(ev, lt) THEN Obj(D, lt, n)
              ELSE Obj(Put(D, ev), lt, n + Raised(Old(D, ev.id), ev))
      BY ScanFeedCall
    <2> QED BY <1>2, <2>1
  <1>4. CASE TooLate(ev, lt)
    BY <1>1, <1>3, <1>4
  <1>5. CASE ~TooLate(ev, lt)
    <2>1. scan' = Obj(Put(by_id, ev), last_timer, scan.alerts + Raised(Old(by_id, ev.id), ev))
      BY <1>1, <1>3, <1>5
    <2> QED BY <1>1, <1>5, <2>1 DEF Obj, by_id, last_timer
  <1> QED BY <1>4, <1>5

LEMMA ScanStep ==
  ASSUME ScanInv, [Next]_vars
  PROVE  ScanInv'
  <1>a. ASSUME onTimer(next_timer), next_timer' = next_timer + Window,
               UNCHANGED <<ev, now, phase>>
        PROVE  ScanInv'
    <2>1. /\ scan' = Obj(by_id', last_timer', scan'.alerts)
          /\ by_id' = Kept(by_id, next_timer) /\ last_timer' = next_timer
      BY <1>a, ScanTimer
    <2>2. next_timer = last_timer + Window /\ last_timer \in Nat /\ Dated(by_id, last_timer)
      BY DEF ScanInv
    <2>3. Dated(by_id', last_timer')
      BY <2>1, <2>2, DatedAfterTimer
    <2>4. \A id \in DOMAIN by_id' : by_id'[id].first_ts <= now'
      BY <1>a, <2>1 DEF Kept, ScanInv
    <2>5. /\ now' \in Nat /\ last_timer' \in Nat /\ next_timer' = last_timer' + Window
          /\ phase' = "flush" => ev' = NoEvent
          /\ ev' # NoEvent => ev' \in Events /\ ev'.ts <= now'
          /\ ev' = NoEvent => now' < next_timer'
      BY <1>a, <2>1, <2>2, WindowAssumption DEF ScanInv
    <2> QED BY <2>1, <2>3, <2>4, <2>5 DEF ScanInv
  <1>b. ASSUME UNCHANGED classes
        PROVE  UNCHANGED <<scan, by_id, last_timer>>
    BY <1>b DEF classes, by_id, last_timer
  <1>1. ASSUME NEW e \in Events, Arrive(e)
        PROVE  ScanInv'
    <2>1. UNCHANGED <<scan, by_id, last_timer>>
      BY <1>1, <1>b DEF Arrive
    <2>2. e.ts \in Nat /\ e # NoEvent
      BY EventAssumption, EventsTimed DEF Timed
    <2>3. now' \in Nat /\ now' >= now /\ ev' = e /\ e.ts <= now'
      BY <1>1, <2>2 DEF Arrive, ScanInv
    <2>4. \A id \in DOMAIN by_id' : by_id'[id].first_ts <= now'
      BY <2>1, <2>3 DEF ScanInv, Dated, Entry
    <2> QED BY <1>1, <2>1, <2>2, <2>3, <2>4 DEF Arrive, ScanInv
  <1>2. CASE TimerDue
    BY <1>a, <1>2 DEF TimerDue, ScanInv
  <1>3. CASE Deliver
    <2>1. ev # NoEvent /\ now < next_timer /\ onFeed(ev) /\ ev' = NoEvent
          /\ now' = now /\ next_timer' = next_timer /\ phase' = phase
      BY <1>3 DEF Deliver
    <2>2. ev \in Timed /\ ev.ts <= now
      BY <2>1, EventsTimed DEF ScanInv
    <2>3. CASE TooLate(ev, last_timer)
      <3>1. UNCHANGED <<scan, by_id, last_timer>>
        BY <2>1, <2>3, ScanFeed DEF by_id, last_timer
      <3> QED BY <2>1, <3>1 DEF ScanInv
    <2>4. CASE ~TooLate(ev, last_timer)
      <3>1. /\ scan' = Obj(by_id', last_timer', scan'.alerts)
            /\ by_id' = Put(by_id, ev) /\ last_timer' = last_timer
        BY <2>1, <2>4, ScanFeed
      <3>2. Dated(by_id, last_timer) /\ last_timer \in Nat /\ ev.ts < last_timer + Window
        BY <2>1, <2>2, WindowAssumption DEF ScanInv, Timed
      <3>3. Dated(by_id', last_timer')
        BY <2>2, <2>4, <3>1, <3>2, DatedAfterFeed
      <3>4. Updated(Old(by_id, ev.id), ev).first_ts <= now
        <4>1. Old(by_id, ev.id) \in Entry /\ Old(by_id, ev.id).first_ts <= now
          BY BlankEntry DEF Old, ScanInv, Dated
        <4> QED BY <2>2, <4>1, UpdatedEntry
      <3>5. \A id \in DOMAIN by_id' : by_id'[id].first_ts <= now'
        BY <2>1, <3>1, <3>4 DEF Put, ScanInv
      <3> QED BY <2>1, <3>1, <3>3, <3>5 DEF ScanInv
    <2> QED BY <2>3, <2>4
  <1>4. CASE EndOfFeed
    <2>1. UNCHANGED <<scan, by_id, last_timer>>
      BY <1>4, <1>b DEF EndOfFeed
    <2> QED BY <1>4, <2>1 DEF EndOfFeed, ScanInv
  <1>5. CASE FlushDue
    BY <1>a, <1>5 DEF FlushDue, ScanInv
  <1>6. CASE UNCHANGED vars
    <2>1. UNCHANGED <<scan, by_id, last_timer, ev, now, next_timer, phase>>
      BY <1>6, <1>b DEF vars
    <2> QED BY <2>1 DEF ScanInv
  <1> QED BY <1>1, <1>2, <1>3, <1>4, <1>5, <1>6 DEF Next

THEOREM ScanInvariance == Spec => []ScanInv
  <1>1. Init => ScanInv
    BY ScanInit
  <1>2. ScanInv /\ [Next]_vars => ScanInv'
    BY ScanStep
  <1> QED BY <1>1, <1>2, PTL DEF Spec

(* NoExpiredEntry: after onTimer(t) nothing is left that expires by t, and *)
(* an execution so late that it would be is dropped by onFeed.             *)
THEOREM NothingExpiredIsKept == Spec => []NoExpiredEntry
  <1>1. ScanInv => NoExpiredEntry
    BY DEF ScanInv, Dated, NoExpiredEntry
  <1> QED BY <1>1, ScanInvariance, PTL

(* BoundedAge: the timers of runBench keep up with the events, so that no  *)
(* entry is two windows old between two of them.                           *)
THEOREM AgesAreBounded == Spec => []BoundedAge
  <1>1. ScanInv => BoundedAge
    BY WindowAssumption DEF ScanInv, Dated, BoundedAge, expireAt, Entry
  <1> QED BY <1>1, ScanInvariance, PTL

(* FlushedAtEnd: three windows past the last event are enough for the      *)
(* flush to remove everything.                                             *)
THEOREM FlushIsComplete == Spec => []FlushedAtEnd
  <1>1. ASSUME ScanInv, Finished
        PROVE  DOMAIN by_id = {}
    <2>1. PICK a \in Nat, b \in 0..Window - 1 : now = Window * a + b /\ now \div Window = a
      <3>1. Window \in Nat /\ Window >= 1 /\ now \in Nat
        BY <1>1, WindowAssumption DEF ScanInv
      <3> QED BY <3>1, Quotient
    <2>2. (a + 3) * Window = Window * a + 3 * Window
      BY WindowAssumption, Z3
    <2>3. next_timer > Window * a + 3 * Window
      BY <1>1, <2>1, <2>2 DEF Finished, flush_to
    <2>4. PICK c : c = Window * a
      OBVIOUS
    <2>5. c \in Nat
      BY <2>4, WindowAssumption, Z3
    <2>6. SUFFICES ASSUME NEW id \in DOMAIN by_id PROVE FALSE
      OBVIOUS
    <2>7. /\ last_timer < by_id[id].first_ts + Window /\ by_id[id].first_ts \in Nat
          /\ by_id[id].first_ts <= now /\ next_timer = last_timer + Window
          /\ last_timer \in Nat /\ now \in Nat
      <3>1. Dated(by_id, last_timer) /\ by_id[id].first_ts <= now
        BY <1>1 DEF ScanInv
      <3>2. by_id[id].first_ts \in Nat /\ last_timer < by_id[id].first_ts + Window
        BY <3>1 DEF Dated, Entry, expireAt
      <3> QED BY <1>1, <3>1, <3>2 DEF ScanInv
    <2> QED BY <2>1, <2>3, <2>4, <2>5, <2>7, WindowAssumption
  <1>2. ScanInv => FlushedAtEnd
    BY <1>1 DEF FlushedAtEnd
  <1> QED BY <1>2, ScanInvariance, PTL

----------------------------------------------------------------------------
(* The heap classes.                                                       *)

Exps(D) == {Exp(D[id], id) : id \in DOMAIN D}
UHeapOf(D, lt, n) == [by_id |-> D, expiry |-> Exps(D), last_timer |-> lt, alerts |-> n]
DHeapOf(D, lt, n) ==
  [entries |-> [id \in 0..max_id |-> Old(D, id)], active |-> [id \in 0..max_id |-> id \in DOMAIN D],
   expiry |-> SetToBag(Exps(D)), last_timer |-> lt, alerts |-> n]

LEMMA ExpFields ==
  ASSUME NEW ent, NEW id
  PROVE  Exp(ent, id).expire_at = expireAt(ent) /\ Exp(ent, id).id = id
  BY DEF Exp

(* The elements that a timer leaves in the heap are those of the entries   *)
(* that it leaves.                                                         *)
LEMMA ExpsKept ==
  ASSUME NEW D, NEW lt \in Nat, NEW t \in Nat, Dated(D, lt)
  PROVE  Exps(Kept(D, t)) = Exps(D) \ {x \in Exps(D) : x.expire_at <= t}
  <1>1. \A id \in DOMAIN D : expireAt(D[id]) \in Nat
    BY WindowAssumption DEF Dated, Entry, expireAt
  <1>2. DOMAIN Kept(D, t) = {id \in DOMAIN D : t < expireAt(D[id])}
        /\ \A id \in DOMAIN Kept(D, t) : Kept(D, t)[id] = D[id]
    BY DEF Kept
  <1>3. ASSUME NEW x \in Exps(Kept(D, t))
        PROVE  x \in Exps(D) /\ ~(x.expire_at <= t)
    <2>1. PICK id \in DOMAIN Kept(D, t) : x = Exp(Kept(D, t)[id], id)
      BY <1>3 DEF Exps
    <2>2. id \in DOMAIN D /\ x = Exp(D[id], id) /\ t < expireAt(D[id])
      BY <1>2, <2>1
    <2> QED BY <1>1, <2>2, ExpFields DEF Exps
  <1>4. ASSUME NEW x \in Exps(D), ~(x.expire_at <= t)
        PROVE  x \in Exps(Kept(D, t))
    <2>1. PICK id \in DOMAIN D : x = Exp(D[id], id)
      BY <1>4 DEF Exps
    <2>2. id \in DOMAIN Kept(D, t)
      BY <1>1, <1>2, <1>4, <2>1, ExpFields
    <2> QED BY <1>2, <2>1, <2>2 DEF Exps
  <1> QED BY <1>3, <1>4

(* An event of an entry that is there finds its element in the heap.       *)
LEMMA ExpsPut ==
  ASSUME NEW D, NEW lt \in Nat, NEW e \in Timed, Dated(D, lt)
  PROVE  /\ Exps(Put(D, e)) = Exps(D) \cup {Exp(Updated(Old(D, e.id), e), e.id)}
         /\ e.id \in DOMAIN D => Exp(Updated(Old(D, e.id), e), e.id) = Exp(D[e.id], e.id)
  <1>1. PICK u : u = Updated(Old(D, e.id), e)
    OBVIOUS
  <1>2. Put(D, e) = [id \in DOMAIN D \cup {e.id} |-> IF id = e.id THEN u ELSE D[id]]
    BY <1>1 DEF Put
  <1>3. ASSUME e.id \in DOMAIN D
        PROVE  Exp(u, e.id) = Exp(D[e.id], e.id)
    <2>1. Old(D, e.id) = D[e.id] /\ D[e.id] \in Entry /\ D[e.id].first_ts # 0
      BY <1>3 DEF Old, Dated
    <2>2. u.first_ts = D[e.id].first_ts
      BY <1>1, <2>1, UpdatedEntry
    <2> QED BY <2>2 DEF Exp, expireAt
  <1>4. Exps(Put(D, e)) = {Exp(IF id = e.id THEN u ELSE D[id], id) : id \in DOMAIN D \cup {e.id}}
    BY <1>2 DEF Exps
  <1>5. Exps(Put(D, e)) = Exps(D) \cup {Exp(u, e.id)}
    BY <1>3, <1>4 DEF Exps
  <1> QED BY <1>1, <1>3, <1>5

LEMMA UHeapTimer ==
  ASSUME NEW D, NEW lt \in Nat, NEW n, NEW t \in Nat, Dated(D, lt)
  PROVE  UHeap!onTimer(UHeapOf(D, lt, n), t) = UHeapOf(Kept(D, t), t, n)
  <1>1. /\ UHeapOf(D, lt, n).by_id = D /\ UHeapOf(D, lt, n).expiry = Exps(D)
        /\ UHeapOf(D, lt, n).last_timer = lt /\ UHeapOf(D, lt, n).alerts = n
    BY DEF UHeapOf
  <1>2. UHeap!Popped(UHeapOf(D, lt, n), t) = {x \in Exps(D) : x.expire_at <= t}
    BY <1>1 DEF UHeap!Popped
  <1>3. DOMAIN D \ UHeap!Victims(UHeapOf(D, lt, n), t) = {id \in DOMAIN D : t < expireAt(D[id])}
    <2>1. \A id \in DOMAIN D : expireAt(D[id]) \in Nat /\ Exp(D[id], id) \in Exps(D)
      BY WindowAssumption DEF Dated, Entry, expireAt, Exps
    <2>2. UHeap!Victims(UHeapOf(D, lt, n), t) = {id \in DOMAIN D : expireAt(D[id]) <= t}
      BY <1>1, <1>2, <2>1, ExpFields, UHeapEntry DEF UHeap!Victims
    <2> QED BY <2>1, <2>2
  <1>4. PICK X : X = Exps(D) \ {x \in Exps(D) : x.expire_at <= t}
    OBVIOUS
  <1>5. UHeap!onTimer(UHeapOf(D, lt, n), t)
          = [UHeapOf(D, lt, n) EXCEPT !.last_timer = t, !.expiry = X, !.by_id = Kept(D, t)]
    BY <1>1, <1>2, <1>3, <1>4 DEF UHeap!onTimer, Kept
  <1>6. X = Exps(Kept(D, t))
    BY <1>4, ExpsKept
  <1> QED BY <1>5, <1>6 DEF UHeapOf

LEMMA UHeapFeed ==
  ASSUME NEW D, NEW lt \in Nat, NEW n, NEW e \in Timed, Dated(D, lt)
  PROVE  UHeap!onFeed(UHeapOf(D, lt, n), e) =
           IF TooLate(e, lt) THEN UHeapOf(D, lt, n)
           ELSE UHeapOf(Put(D, e), lt, n + Raised(Old(D, e.id), e))
  <1>1. /\ UHeapOf(D, lt, n).by_id = D /\ UHeapOf(D, lt, n).expiry = Exps(D)
        /\ UHeapOf(D, lt, n).last_timer = lt /\ UHeapOf(D, lt, n).alerts = n
    BY DEF UHeapOf
  <1>2. UHeap!Look(UHeapOf(D, lt, n), e.id) = Old(D, e.id)
    BY <1>1, UHeapEntry DEF UHeap!Look, Old
  <1>3. PICK P : P = Put(D, e)
    OBVIOUS
  <1>4. PICK X : X = Exps(D) \cup {Exp(Updated(Old(D, e.id), e), e.id)}
    OBVIOUS
  <1>5. PICK r : r = n + Raised(Old(D, e.id), e)
    OBVIOUS
  <1>6. CASE ~TooLate(e, lt)
    <2>1. UHeap!onFeed(UHeapOf(D, lt, n), e)
            = [UHeapOf(D, lt, n) EXCEPT !.by_id = P, !.expiry = X, !.alerts = r]
      BY <1>1, <1>2, <1>3, <1>4, <1>5, <1>6, UHeapEntry DEF UHeap!onFeed, Put
    <2>2. X = Exps(P)
      BY <1>3, <1>4, ExpsPut
    <2> QED BY <1>3, <1>5, <1>6, <2>1, <2>2 DEF UHeapOf
  <1>7. CASE TooLate(e, lt)
    BY <1>1, <1>7, UHeapEntry DEF UHeap!onFeed
  <1> QED BY <1>6, <1>7

LEMMA DHeapBags ==
  /\ \A S : DHeap!SetToBag(S) = [x \in S |-> 1]
  /\ DHeap!EmptyBag = [x \in {} |-> 1]
  /\ \A B : DHeap!BagToSet(B) = DOMAIN B
  /\ \A A, B : DHeap!(+)(A, B) = [x \in DOMAIN A \cup DOMAIN B |->
                              (IF x \in DOMAIN A THEN A[x] ELSE 0) + (IF x \in DOMAIN B THEN B[x] ELSE 0)]
  BY DEF DHeap!SetToBag, DHeap!EmptyBag, DHeap!BagToSet, DHeap!(+)

(* Entries are indexed by id.                                              *)
LEMMA Indexed ==
  ASSUME NEW D, NEW lt, Dated(D, lt)
  PROVE  /\ DOMAIN D \subseteq 0..max_id
         /\ \A id \in DOMAIN D : Old(D, id) = D[id]
         /\ \A id : id \notin DOMAIN D => Old(D, id) = Blank
  BY IdsAssumption, MaxIdAssumption DEF Dated, Old

LEMMA OldKept ==
  ASSUME NEW D, NEW t, NEW id
  PROVE  Old(Kept(D, t), id) = IF id \in {j \in DOMAIN D : t < expireAt(D[j])} THEN D[id] ELSE Blank
  BY DEF Old, Kept

LEMMA OldPut ==
  ASSUME NEW D, NEW e, NEW id
  PROVE  Old(Put(D, e), id) = IF id = e.id THEN Updated(Old(D, e.id), e) ELSE Old(D, id)
  <1>1. PICK u : u = Updated(Old(D, e.id), e)
    OBVIOUS
  <1>2. Put(D, e) = [x \in DOMAIN D \cup {e.id} |-> IF x = e.id THEN u ELSE D[x]]
    BY <1>1 DEF Put
  <1> QED BY <1>1, <1>2 DEF Old

LEMMA DHeapTimer ==
  ASSUME NEW D, NEW lt \in Nat, NEW n, NEW t \in Nat, Dated(D, lt)
  PROVE  DHeap!onTimer(DHeapOf(D, lt, n), t) = DHeapOf(Kept(D, t), t, n)
  <1> DEFINE s == DHeapOf(D, lt, n)
             Due == {id \in DOMAIN D : expireAt(D[id]) <= t}
  <1>1. /\ s.entries = [id \in 0..max_id |-> Old(D, id)]
        /\ s.active = [id \in 0..max_id |-> id \in DOMAIN D]
        /\ s.expiry = [x \in Exps(D) |-> 1] /\ s.last_timer = lt /\ s.alerts = n
    BY DEF DHeapOf, SetToBag
  <1>2. DHeap!Popped(s, t) = {x \in Exps(D) : x.expire_at <= t}
    BY <1>1, DHeapBags DEF DHeap!Popped
  <1>3. \A id \in DOMAIN D : expireAt(D[id]) \in Nat /\ Exp(D[id], id) \in Exps(D)
    BY WindowAssumption DEF Dated, Entry, expireAt, Exps
  <1>4. DHeap!Victims(s, t) = Due
    <2>1. DHeap!Victims(s, t) = {id \in 0..max_id : id \in DOMAIN D /\ Exp(Old(D, id), id) \in DHeap!Popped(s, t)}
      <3>1. \A id \in 0..max_id :
              /\ s.active[id] <=> id \in DOMAIN D
              /\ DHeap!Exp(s.entries[id], id) = Exp(Old(D, id), id)
        BY <1>1, DHeapEntry
      <3> HIDE DEF s
      <3> QED BY <3>1 DEF DHeap!Victims
    <2>2. \A id \in DOMAIN D : Exp(Old(D, id), id) \in DHeap!Popped(s, t) <=> expireAt(D[id]) <= t
      BY <1>2, <1>3, Indexed, ExpFields
    <2> HIDE DEF s
    <2> QED BY <2>1, <2>2, Indexed
  <1>5. PICK X : X = [x \in Exps(D) \ {x \in Exps(D) : x.expire_at <= t} |-> 1]
    OBVIOUS
  <1>6. PICK E : E = [id \in 0..max_id |-> IF id \in Due THEN Blank ELSE Old(D, id)]
    OBVIOUS
  <1>7. PICK A : A = [id \in 0..max_id |-> id \in DOMAIN D /\ id \notin Due]
    OBVIOUS
  <1>8. DHeap!onTimer(s, t) = [s EXCEPT !.last_timer = t, !.expiry = X, !.entries = E, !.active = A]
    <2>1. [x \in DHeap!BagToSet(s.expiry) \ DHeap!Popped(s, t) |-> s.expiry[x]] = X
      BY <1>1, <1>2, <1>5, DHeapBags
    <2>2. [id \in 0..max_id |-> IF id \in DHeap!Victims(s, t) THEN DHeap!Blank ELSE s.entries[id]] = E
      BY <1>1, <1>4, <1>6, DHeapEntry
    <2>3. [id \in 0..max_id |-> s.active[id] /\ id \notin DHeap!Victims(s, t)] = A
      BY <1>1, <1>4, <1>7
    <2> HIDE DEF s, Due
    <2> QED BY <2>1, <2>2, <2>3 DEF DHeap!onTimer
  <1>9. X = SetToBag(Exps(Kept(D, t)))
    BY <1>5, ExpsKept DEF SetToBag
  <1>10. \A id : id \in Due <=> id \in DOMAIN D /\ id \notin DOMAIN Kept(D, t)
    BY <1>3 DEF Kept
  <1>11. DOMAIN Kept(D, t) \subseteq DOMAIN D
    BY DEF Kept
  <1>12. E = [id \in 0..max_id |-> Old(Kept(D, t), id)]
    <2>1. \A id : Old(Kept(D, t), id) = IF id \in Due THEN Blank ELSE Old(D, id)
      BY <1>3, OldKept, Indexed
    <2> QED BY <1>6, <2>1
  <1>13. A = [id \in 0..max_id |-> id \in DOMAIN Kept(D, t)]
    BY <1>7, <1>10, <1>11
  <1>14. s = [entries |-> s.entries, active |-> s.active, expiry |-> s.expiry,
              last_timer |-> lt, alerts |-> n]
    BY DEF DHeapOf
  <1>15. DHeap!onTimer(s, t) = [entries |-> E, active |-> A, expiry |-> X, last_timer |-> t, alerts |-> n]
    <2>1. PICK a, b, c : s = [entries |-> a, active |-> b, expiry |-> c, last_timer |-> lt, alerts |-> n]
      BY <1>14
    <2> HIDE DEF s, Due
    <2> QED BY <1>8, <2>1
  <1> QED BY <1>9, <1>12, <1>13, <1>15 DEF DHeapOf

LEMMA DHeapFeed ==
  ASSUME NEW D, NEW lt \in Nat, NEW n, NEW e \in Timed, Dated(D, lt)
  PROVE  DHeap!onFeed(DHeapOf(D, lt, n), e) =
           IF TooLate(e, lt) THEN DHeapOf(D, lt, n)
           ELSE DHeapOf(Put(D, e), lt, n + Raised(Old(D, e.id), e))
  <1> DEFINE s == DHeapOf(D, lt, n)
  <1>1. /\ s.entries = [id \in 0..max_id |-> Old(D, id)]
        /\ s.active = [id \in 0..max_id |-> id \in DOMAIN D]
        /\ s.expiry = [x \in Exps(D) |-> 1] /\ s.last_timer = lt /\ s.alerts = n
        /\ s = [entries |-> s.entries, active |-> s.active, expiry |-> s.expiry,
                last_timer |-> lt, alerts |-> n]
    BY DEF DHeapOf, SetToBag
  <1> HIDE DEF s
  <1>2. e.id \in 0..max_id /\ ~(e.id > max_id) /\ e.id \in Ids
    <2>1. e.id \in Ids
      BY DEF Timed
    <2>2. e.id \in Nat \ {0} /\ e.id <= max_id /\ max_id \in Nat
      BY <2>1, IdsAssumption, MaxIdAssumption
    <2> QED BY <2>1, <2>2
  <1>3. s.entries[e.id] = Old(D, e.id) /\ (s.active[e.id] <=> e.id \in DOMAIN D)
    BY <1>1, <1>2
  <1>4. PICK u : u = Updated(Old(D, e.id), e)
    OBVIOUS
  <1>5. PICK E : E = [s.entries EXCEPT ![e.id] = u]
    OBVIOUS
  <1>6. PICK A : A = [s.active EXCEPT ![e.id] = TRUE]
    OBVIOUS
  <1>7. PICK X : X = DHeap!(+)(s.expiry, DHeap!Pushed(s, e.id, u))
    OBVIOUS
  <1>8. PICK r : r = n + Raised(Old(D, e.id), e)
    OBVIOUS
  <1>9. E = [id \in 0..max_id |-> Old(Put(D, e), id)]
    <2>1. E = [id \in 0..max_id |-> IF id = e.id THEN u ELSE Old(D, id)]
      BY <1>1, <1>2, <1>5
    <2> QED BY <1>4, <2>1, OldPut
  <1>10. A = [id \in 0..max_id |-> id \in DOMAIN Put(D, e)]
    <2>1. DOMAIN Put(D, e) = DOMAIN D \cup {e.id}
      BY DEF Put
    <2>2. A = [id \in 0..max_id |-> IF id = e.id THEN TRUE ELSE id \in DOMAIN D]
      BY <1>1, <1>2, <1>6
    <2>3. \A id : (IF id = e.id THEN TRUE ELSE id \in DOMAIN D) = (id \in DOMAIN D \cup {e.id})
      <3> SUFFICES ASSUME NEW id
                   PROVE  (IF id = e.id THEN TRUE ELSE id \in DOMAIN D) = (id \in DOMAIN D \cup {e.id})
        OBVIOUS
      <3>1. CASE id = e.id
        BY <3>1, Zenon
      <3>2. CASE id # e.id
        <4>1. (id \in DOMAIN D \cup {e.id}) = (id \in DOMAIN D)
          BY <3>2
        <4> QED BY <3>2, <4>1, Zenon
      <3> QED BY <3>1, <3>2
    <2> QED BY <2>1, <2>2, <2>3
  <1>11. X = SetToBag(Exps(Put(D, e)))
    <2>1. Exps(Put(D, e)) = Exps(D) \cup {Exp(u, e.id)}
          /\ (e.id \in DOMAIN D => Exp(u, e.id) = Exp(D[e.id], e.id))
      BY <1>4, ExpsPut
    <2>2. CASE e.id \in DOMAIN D
      <3>1. DHeap!Pushed(s, e.id, u) = [x \in {} |-> 1]
        BY <1>3, <2>2, DHeapBags DEF DHeap!Pushed
      <3>2. X = [x \in Exps(D) |-> 1]
        <4>1. PICK B, C : B = s.expiry /\ C = DHeap!Pushed(s, e.id, u)
          OBVIOUS
        <4>2. X = [x \in DOMAIN B \cup DOMAIN C |->
                     (IF x \in DOMAIN B THEN B[x] ELSE 0) + (IF x \in DOMAIN C THEN C[x] ELSE 0)]
          BY <1>7, <4>1, DHeapBags
        <4>3. DOMAIN C = {} /\ DOMAIN B = Exps(D) /\ \A x \in Exps(D) : B[x] = 1
          BY <1>1, <3>1, <4>1
        <4>4. DOMAIN X = Exps(D) /\ \A x \in Exps(D) : X[x] = 1 + 0
          BY <4>2, <4>3
        <4> QED BY <4>2, <4>3, <4>4
      <3>3. Exp(u, e.id) \in Exps(D)
        BY <2>1, <2>2 DEF Exps
      <3>4. Exps(Put(D, e)) = Exps(D)
        BY <2>1, <3>3
      <3> QED BY <3>2, <3>4 DEF SetToBag
    <2>3. CASE e.id \notin DOMAIN D
      <3>1. PICK x : x = Exp(u, e.id)
        OBVIOUS
      <3>2. DHeap!Pushed(s, e.id, u) = [y \in {x} |-> 1]
        BY <1>3, <2>3, <3>1, DHeapBags, DHeapEntry DEF DHeap!Pushed
      <3>3. x \notin Exps(D)
        BY <2>3, <3>1, ExpFields DEF Exps
      <3>4. X = [y \in Exps(D) \cup {x} |-> (IF y \in Exps(D) THEN 1 ELSE 0) + (IF y \in {x} THEN 1 ELSE 0)]
        BY <1>1, <1>7, <3>2, DHeapBags
      <3>5. X = [y \in Exps(D) \cup {x} |-> 1]
        BY <3>3, <3>4
      <3> QED BY <2>1, <3>1, <3>5 DEF SetToBag
    <2> QED BY <2>2, <2>3
  <1>12. CASE ~TooLate(e, lt)
    <2>1. DHeap!onFeed(s, e) = [s EXCEPT !.entries = E, !.active = A, !.expiry = X, !.alerts = r]
      BY <1>1, <1>2, <1>3, <1>4, <1>5, <1>6, <1>7, <1>8, <1>12, DHeapEntry DEF DHeap!onFeed
    <2> QED BY <1>1, <1>8, <1>9, <1>10, <1>11, <1>12, <2>1 DEF DHeapOf, s
  <1>13. CASE TooLate(e, lt)
    BY <1>1, <1>13, DHeapEntry DEF DHeap!onFeed, s
  <1> QED BY <1>12, <1>13

----------------------------------------------------------------------------
(* The wheel classes.                                                      *)

DueOf(D, b) == {id \in DOMAIN D : expireAt(D[id]) % tick_mod = b}
WheelOf(D) == [b \in 0..tick_mod - 1 |-> DueOf(D, b)]
Passed(lt, t) == lt + 1..t
DWheelOf(D, lt, n) ==
  [entries |-> [id \in 0..max_id |-> Old(D, id)], active |-> [id \in 0..max_id |-> id \in DOMAIN D],
   wheel |-> WheelOf(D), last_timer |-> lt, alerts |-> n]

(* Numbers with the same remainder are equal or far apart.                 *)
LEMMA SameBucket ==
  ASSUME NEW c \in Nat, c >= 1, NEW x \in Nat, NEW y \in Nat,
         x < y + c, y < x + c, x % c = y % c
  PROVE  x = y
  <1>1. PICK a \in Nat, b \in 0..c - 1 : x = c * a + b /\ x % c = b
    BY Quotient
  <1>2. PICK d \in Nat, f \in 0..c - 1 : y = c * d + f /\ y % c = f
    BY Quotient
  <1>3. f = b
    BY <1>1, <1>2
  <1>4. CASE d >= a + 1
    <2>1. c * d >= c * (a + 1) /\ c * (a + 1) = c * a + c
      BY <1>4, Z3
    <2> QED BY <1>1, <1>2, <1>3, <2>1, Z3
  <1>5. CASE a >= d + 1
    <2>1. c * a >= c * (d + 1) /\ c * (d + 1) = c * d + c
      BY <1>5, Z3
    <2> QED BY <1>1, <1>2, <1>3, <2>1, Z3
  <1>6. CASE a = d
    BY <1>1, <1>2, <1>3, <1>6
  <1> QED BY <1>4, <1>5, <1>6

(* The expirations in the wheel span less than two windows, and the ticks  *)
(* of a timer one: in a wheel two windows long they share no bucket.       *)
LEMMA OneTickPerBucket ==
  ASSUME NEW lt \in Nat, NEW x \in lt + 1..lt + 2 * Window - 1, NEW y \in lt + 1..lt + 2 * Window - 1,
         x % tick_mod = y % tick_mod
  PROVE  x = y
  <1>1. tick_mod \in Nat /\ tick_mod >= 1 /\ tick_mod >= 2 * Window /\ Window \in Nat /\ Window >= 1
    BY WheelAssumption, WindowAssumption
  <1>2. x \in Nat /\ y \in Nat /\ x < y + tick_mod /\ y < x + tick_mod
    BY <1>1
  <1> QED BY <1>1, <1>2, SameBucket

LEMMA Spread ==
  ASSUME NEW D, NEW lt \in Nat, Dated(D, lt)
  PROVE  /\ \A id \in DOMAIN D : expireAt(D[id]) \in lt + 1..lt + 2 * Window - 1
         /\ \A u \in Passed(lt, lt + Window) : u \in lt + 1..lt + 2 * Window - 1
  <1>1. \A id \in DOMAIN D : expireAt(D[id]) \in lt + 1..lt + 2 * Window - 1
    BY WindowAssumption DEF Dated, Entry, expireAt
  <1>2. \A u \in Passed(lt, lt + Window) : u \in lt + 1..lt + 2 * Window - 1
    BY WindowAssumption DEF Passed
  <1> QED BY <1>1, <1>2

(* A timer finds in the buckets of its ticks exactly what is due.          *)
LEMMA WheelDue ==
  ASSUME NEW D, NEW lt \in Nat, Dated(D, lt), NEW id \in DOMAIN D
  PROVE  (\E u \in Passed(lt, lt + Window) :
            /\ \A w \in Passed(lt, lt + Window) : w % tick_mod = u % tick_mod => u <= w
            /\ id \in DueOf(D, u % tick_mod)
            /\ expireAt(D[id]) <= u)
         <=> expireAt(D[id]) <= lt + Window
  <1>1. expireAt(D[id]) \in lt + 1..lt + 2 * Window - 1
    BY Spread
  <1>2. ASSUME NEW u \in Passed(lt, lt + Window), expireAt(D[id]) <= u
        PROVE  expireAt(D[id]) <= lt + Window
    BY <1>1, <1>2, WindowAssumption DEF Passed
  <1>3. ASSUME expireAt(D[id]) <= lt + Window
        PROVE  \E u \in Passed(lt, lt + Window) :
                 /\ \A w \in Passed(lt, lt + Window) : w % tick_mod = u % tick_mod => u <= w
                 /\ id \in DueOf(D, u % tick_mod)
                 /\ expireAt(D[id]) <= u
    <2>1. PICK u : u = expireAt(D[id])
      OBVIOUS
    <2>2. u \in Passed(lt, lt + Window) /\ u \in lt + 1..lt + 2 * Window - 1
      BY <1>1, <1>3, <2>1, WindowAssumption DEF Passed
    <2>3. ASSUME NEW w \in Passed(lt, lt + Window), w % tick_mod = u % tick_mod
          PROVE  u <= w
      <3>1. w \in lt + 1..lt + 2 * Window - 1
        BY Spread
      <3>2. w = u
        BY <2>2, <2>3, <3>1, OneTickPerBucket
      <3> QED BY <2>2, <3>2
    <2>4. id \in DueOf(D, u % tick_mod)
      BY <2>1 DEF DueOf
    <2>5. expireAt(D[id]) <= u
      BY <2>1, <2>2
    <2> QED BY <2>2, <2>3, <2>4, <2>5
  <1> QED BY <1>2, <1>3

(* Clearing the buckets of the ticks forgets nothing that is not due.      *)
LEMMA WheelKept ==
  ASSUME NEW D, NEW lt \in Nat, Dated(D, lt), NEW b
  PROVE  (IF \E u \in Passed(lt, lt + Window) : u % tick_mod = b THEN {} ELSE DueOf(D, b))
           = DueOf(Kept(D, lt + Window), b)
  <1>1. \A id : id \in DueOf(Kept(D, lt + Window), b) <=>
                  id \in DOMAIN D /\ lt + Window < expireAt(D[id]) /\ expireAt(D[id]) % tick_mod = b
    BY DEF DueOf, Kept
  <1>2. \A id \in DOMAIN D : expireAt(D[id]) \in lt + 1..lt + 2 * Window - 1
    BY Spread
  <1>3. CASE \E u \in Passed(lt, lt + Window) : u % tick_mod = b
    <2>1. PICK u \in Passed(lt, lt + Window) : u % tick_mod = b
      BY <1>3
    <2>2. u \in lt + 1..lt + 2 * Window - 1
      BY Spread
    <2>3. ASSUME NEW id \in DueOf(Kept(D, lt + Window), b)
          PROVE  FALSE
      <3>1. id \in DOMAIN D /\ lt + Window < expireAt(D[id]) /\ expireAt(D[id]) % tick_mod = u % tick_mod
        BY <1>1, <2>1, <2>3
      <3>2. PICK x : x = expireAt(D[id])
        OBVIOUS
      <3>3. x \in lt + 1..lt + 2 * Window - 1 /\ x % tick_mod = u % tick_mod
        BY <1>2, <3>1, <3>2
      <3>4. x = u
        BY <2>2, <3>3, OneTickPerBucket
      <3> QED BY <3>1, <3>2, <3>4, WindowAssumption DEF Passed
    <2> QED BY <1>3, <2>3
  <1>4. CASE ~\E u \in Passed(lt, lt + Window) : u % tick_mod = b
    <2>1. ASSUME NEW id \in DueOf(D, b)
          PROVE  id \in DueOf(Kept(D, lt + Window), b)
      <3>1. PICK x : x = expireAt(D[id])
        OBVIOUS
      <3>2. id \in DOMAIN D /\ x % tick_mod = b /\ x \in lt + 1..lt + 2 * Window - 1
        BY <1>2, <2>1, <3>1 DEF DueOf
      <3>3. x \notin Passed(lt, lt + Window)
        BY <1>4, <3>2
      <3>4. lt + Window < x
        BY <3>2, <3>3, WindowAssumption DEF Passed
      <3> QED BY <1>1, <3>1, <3>2, <3>4
    <2>2. DueOf(Kept(D, lt + Window), b) \subseteq DueOf(D, b)
      BY <1>1 DEF DueOf
    <2> QED BY <1>4, <2>1, <2>2
  <1> QED BY <1>3, <1>4

(* The id of an event goes to the bucket of its expiration, unless it is   *)
(* there already.                                                          *)
LEMMA WheelPut ==
  ASSUME NEW D, NEW lt \in Nat, NEW e \in Timed, Dated(D, lt)
  PROVE  WheelOf(Put(D, e)) =
           IF e.id \in DOMAIN D THEN WheelOf(D)
           ELSE LET b == expireAt(Updated(Old(D, e.id), e)) % tick_mod IN
                [WheelOf(D) EXCEPT ![b] = @ \cup {e.id}]
  <1>1. PICK u : u = Updated(Old(D, e.id), e)
    OBVIOUS
  <1>2. Put(D, e) = [id \in DOMAIN D \cup {e.id} |-> IF id = e.id THEN u ELSE D[id]]
    BY <1>1 DEF Put
  <1>3. CASE e.id \in DOMAIN D
    <2>1. expireAt(u) = expireAt(D[e.id])
      <3>1. Old(D, e.id) = D[e.id] /\ D[e.id] \in Entry /\ D[e.id].first_ts # 0
        BY <1>3 DEF Old, Dated
      <3>2. u.first_ts = D[e.id].first_ts
        BY <1>1, <3>1, UpdatedEntry
      <3> QED BY <3>2 DEF expireAt
    <2>2. DOMAIN Put(D, e) = DOMAIN D /\ \A id \in DOMAIN D : expireAt(Put(D, e)[id]) = expireAt(D[id])
      BY <1>2, <1>3, <2>1
    <2>3. \A b : DueOf(Put(D, e), b) = DueOf(D, b)
      BY <2>2 DEF DueOf
    <2> QED BY <1>3, <2>3 DEF WheelOf
  <1>4. CASE e.id \notin DOMAIN D
    <2>1. PICK c : c = expireAt(u) % tick_mod
      OBVIOUS
    <2>2. \A b : DueOf(Put(D, e), b) = IF b = c THEN DueOf(D, b) \cup {e.id} ELSE DueOf(D, b)
      BY <1>2, <1>4, <2>1 DEF DueOf
    <2>3. WheelOf(Put(D, e)) = [WheelOf(D) EXCEPT ![c] = @ \cup {e.id}]
      BY <2>2 DEF WheelOf
    <2> QED BY <1>1, <1>4, <2>1, <2>3
  <1> QED BY <1>3, <1>4

LEMMA BucketRange ==
  ASSUME NEW x \in Nat
  PROVE  x % tick_mod \in 0..tick_mod - 1
  <1>1. tick_mod \in Nat /\ tick_mod >= 1
    BY WheelAssumption, WindowAssumption
  <1> QED BY <1>1, Quotient

LEMMA DWheelTimer ==
  ASSUME NEW D, NEW lt \in Nat, NEW n, Dated(D, lt)
  PROVE  DWheel!onTimer(DWheelOf(D, lt, n), lt + Window) = DWheelOf(Kept(D, lt + Window), lt + Window, n)
  <1> DEFINE s == DWheelOf(D, lt, n)
             t == lt + Window
             Due == {id \in DOMAIN D : expireAt(D[id]) <= t}
  <1>1. /\ s.entries = [id \in 0..max_id |-> Old(D, id)]
        /\ s.active = [id \in 0..max_id |-> id \in DOMAIN D]
        /\ s.wheel = WheelOf(D) /\ s.last_timer = lt /\ s.alerts = n
        /\ s = [entries |-> s.entries, active |-> s.active, wheel |-> s.wheel,
                last_timer |-> lt, alerts |-> n]
    BY DEF DWheelOf
  <1> HIDE DEF s
  <1>2. DWheel!Ticks(s, t) = Passed(lt, t) /\ Passed(lt, t) \subseteq Nat
    BY <1>1 DEF DWheel!Ticks, Passed
  <1>3. \A id \in DOMAIN D : expireAt(D[id]) \in Nat /\ t \in Nat
    BY WindowAssumption DEF Dated, Entry, expireAt
  <1>4. DWheel!Victims(s, t) = Due
    <2>1. \A u \in Passed(lt, t) : s.wheel[u % tick_mod] = DueOf(D, u % tick_mod)
      BY <1>1, <1>2, BucketRange DEF WheelOf
    <2>2. ASSUME NEW id \in 0..max_id
          PROVE  id \in DWheel!Victims(s, t) <=> id \in Due
      <3>1. CASE id \notin DOMAIN D
        BY <1>1, <2>2, <3>1 DEF DWheel!Victims
      <3>2. CASE id \in DOMAIN D
        <4>1. s.active[id] /\ DWheel!expireAt(s.entries[id]) = expireAt(D[id])
          <5>1. Old(D, id) = D[id]
            BY <3>2, Indexed
          <5>2. s.active[id] /\ s.entries[id] = D[id]
            BY <1>1, <2>2, <3>2, <5>1
          <5> QED BY <5>2, DWheelEntry
        <4>2. id \in DWheel!Victims(s, t)
                <=> \E u \in Passed(lt, t) :
                      /\ \A w \in Passed(lt, t) : w % tick_mod = u % tick_mod => u <= w
                      /\ id \in DueOf(D, u % tick_mod)
                      /\ expireAt(D[id]) <= u
          <5> HIDE DEF t
          <5> QED BY <1>2, <2>1, <2>2, <4>1 DEF DWheel!Victims, DWheel!FirstTick
        <4> QED BY <3>2, <4>2, WheelDue
      <3> QED BY <3>1, <3>2
    <2>3. Due \subseteq 0..max_id /\ DWheel!Victims(s, t) \subseteq 0..max_id
      BY Indexed DEF DWheel!Victims
    <2> QED BY <2>2, <2>3
  <1>5. PICK W : W = WheelOf(Kept(D, t))
    OBVIOUS
  <1>6. PICK E : E = [id \in 0..max_id |-> IF id \in Due THEN Blank ELSE Old(D, id)]
    OBVIOUS
  <1>7. PICK A : A = [id \in 0..max_id |-> id \in DOMAIN D /\ id \notin Due]
    OBVIOUS
  <1>8. DWheel!onTimer(s, t) = [s EXCEPT !.entries = E, !.active = A, !.wheel = W, !.last_timer = t]
    <2>1. [b \in DWheel!Buckets |->
             IF \E u \in DWheel!Ticks(s, t) : u % tick_mod = b THEN {} ELSE s.wheel[b]] = W
      <3>1. DWheel!Buckets = 0..tick_mod - 1
        BY DEF DWheel!Buckets
      <3>2. \A b \in 0..tick_mod - 1 : s.wheel[b] = DueOf(D, b)
        BY <1>1 DEF WheelOf
      <3>3. \A b : (IF \E u \in Passed(lt, t) : u % tick_mod = b THEN {} ELSE DueOf(D, b))
                     = DueOf(Kept(D, t), b)
        BY WheelKept
      <3> HIDE DEF t
      <3> QED BY <1>2, <1>5, <3>1, <3>2, <3>3 DEF WheelOf
    <2>2. [id \in 0..max_id |-> IF id \in DWheel!Victims(s, t) THEN DWheel!Blank ELSE s.entries[id]] = E
      BY <1>1, <1>4, <1>6, DWheelEntry
    <2>3. [id \in 0..max_id |-> s.active[id] /\ id \notin DWheel!Victims(s, t)] = A
      BY <1>1, <1>4, <1>7
    <2> HIDE DEF Due, t
    <2> QED BY <2>1, <2>2, <2>3 DEF DWheel!onTimer
  <1>9. \A id : id \in Due <=> id \in DOMAIN D /\ id \notin DOMAIN Kept(D, t)
    BY <1>3 DEF Kept
  <1>10. DOMAIN Kept(D, t) \subseteq DOMAIN D
    BY DEF Kept
  <1>11. E = [id \in 0..max_id |-> Old(Kept(D, t), id)]
    <2>1. \A id : Old(Kept(D, t), id) = IF id \in Due THEN Blank ELSE Old(D, id)
      BY <1>3, OldKept, Indexed
    <2> QED BY <1>6, <2>1
  <1>12. A = [id \in 0..max_id |-> id \in DOMAIN Kept(D, t)]
    BY <1>7, <1>9, <1>10
  <1>13. DWheel!onTimer(s, t) = [entries |-> E, active |-> A, wheel |-> W, last_timer |-> t, alerts |-> n]
    <2>1. PICK a, b, c : s = [entries |-> a, active |-> b, wheel |-> c, last_timer |-> lt, alerts |-> n]
      BY <1>1
    <2> HIDE DEF Due, t
    <2> QED BY <1>8, <2>1
  <1> QED BY <1>5, <1>11, <1>12, <1>13 DEF DWheelOf, s

LEMMA DWheelFeed ==
  ASSUME NEW D, NEW lt \in Nat, NEW n, NEW e \in Timed, Dated(D, lt)
  PROVE  DWheel!onFeed(DWheelOf(D, lt, n), e) =
           IF TooLate(e, lt) THEN DWheelOf(D, lt, n)
           ELSE DWheelOf(Put(D, e), lt, n + Raised(Old(D, e.id), e))
  <1> DEFINE s == DWheelOf(D, lt, n)
  <1>1. /\ s.entries = [id \in 0..max_id |-> Old(D, id)]
        /\ s.active = [id \in 0..max_id |-> id \in DOMAIN D]
        /\ s.wheel = WheelOf(D) /\ s.last_timer = lt /\ s.alerts = n
        /\ s = [entries |-> s.entries, active |-> s.active, wheel |-> s.wheel,
                last_timer |-> lt, alerts |-> n]
    BY DEF DWheelOf
  <1> HIDE DEF s
  <1>2. e.id \in 0..max_id /\ ~(e.id > max_id) /\ e.id \in Ids
    <2>1. e.id \in Ids
      BY DEF Timed
    <2>2. e.id \in Nat \ {0} /\ e.id <= max_id /\ max_id \in Nat
      BY <2>1, IdsAssumption, MaxIdAssumption
    <2> QED BY <2>1, <2>2
  <1>3. s.entries[e.id] = Old(D, e.id) /\ (s.active[e.id] <=> e.id \in DOMAIN D)
    BY <1>1, <1>2
  <1>4. PICK u : u = Updated(Old(D, e.id), e)
    OBVIOUS
  <1>5. PICK E : E = [s.entries EXCEPT ![e.id] = u]
    OBVIOUS
  <1>6. PICK A : A = [s.active EXCEPT ![e.id] = TRUE]
    OBVIOUS
  <1>7. PICK W : W = WheelOf(Put(D, e))
    OBVIOUS
  <1>8. PICK r : r = n + Raised(Old(D, e.id), e)
    OBVIOUS
  <1>9. E = [id \in 0..max_id |-> Old(Put(D, e), id)]
    <2>1. E = [id \in 0..max_id |-> IF id = e.id THEN u ELSE Old(D, id)]
      BY <1>1, <1>2, <1>5
    <2> QED BY <1>4, <2>1, OldPut
  <1>10. A = [id \in 0..max_id |-> id \in DOMAIN Put(D, e)]
    <2>1. DOMAIN Put(D, e) = DOMAIN D \cup {e.id}
      BY DEF Put
    <2>2. A = [id \in 0..max_id |-> IF id = e.id THEN TRUE ELSE id \in DOMAIN D]
      BY <1>1, <1>2, <1>6
    <2>3. \A id : (IF id = e.id THEN TRUE ELSE id \in DOMAIN D) = (id \in DOMAIN D \cup {e.id})
      <3> SUFFICES ASSUME NEW id
                   PROVE  (IF id = e.id THEN TRUE ELSE id \in DOMAIN D) = (id \in DOMAIN D \cup {e.id})
        OBVIOUS
      <3>1. CASE id = e.id
        BY <3>1, Zenon
      <3>2. CASE id # e.id
        <4>1. (id \in DOMAIN D \cup {e.id}) = (id \in DOMAIN D)
          BY <3>2
        <4> QED BY <3>2, <4>1, Zenon
      <3> QED BY <3>1, <3>2
    <2> QED BY <2>1, <2>2, <2>3
  <1>11. (IF s.active[e.id] THEN s.wheel ELSE DWheel!scheduleExpiry(s, e.id, DWheel!expireAt(u))) = W
    BY <1>1, <1>3, <1>4, <1>7, WheelPut, DWheelEntry DEF DWheel!scheduleExpiry
  <1>12. CASE ~TooLate(e, lt)
    <2>1. DWheel!onFeed(s, e) = [s EXCEPT !.entries = E, !.active = A, !.wheel = W, !.alerts = r]
      BY <1>1, <1>2, <1>3, <1>4, <1>5, <1>6, <1>8, <1>11, <1>12, DWheelEntry DEF DWheel!onFeed
    <2>2. PICK a, b, c : s = [entries |-> a, active |-> b, wheel |-> c, last_timer |-> lt, alerts |-> n]
      BY <1>1
    <2>3. DWheel!onFeed(s, e) = [entries |-> E, active |-> A, wheel |-> W, last_timer |-> lt, alerts |-> r]
      BY <2>1, <2>2
    <2> QED BY <1>7, <1>8, <1>9, <1>10, <1>12, <2>3 DEF DWheelOf, s
  <1>13. CASE TooLate(e, lt)
    BY <1>1, <1>13, DWheelEntry DEF DWheel!onFeed, s
  <1> QED BY <1>12, <1>13

----------------------------------------------------------------------------
(* The flat table of FlatHash.                                             *)

cap == FHeap!Cap
Place(h, id, d) == (h.probe[id] + d) % cap

LEMMA CapIsEnough ==
  /\ cap \in Nat /\ cap >= 2 /\ FHeap!Table = 0..cap - 1
  /\ IsFiniteSet(Ids) /\ Cardinality(Ids) < cap /\ Cardinality(Ids) \in Nat
  <1>1. Cardinality(Ids) \in Nat
    BY LoadAssumption, FS_CardinalityType
  <1> QED BY <1>1, CapAssumption, LoadAssumption, HashAssumption DEF cap, FHeap!Table

LEMMA Remainder ==
  ASSUME NEW c \in Nat, c >= 1, NEW a \in Nat, NEW b \in 0..c - 1
  PROVE  (c * a + b) % c = b
  BY Z3T(60)

(* Steps from places with the same remainder lead to the same places.      *)
LEMMA SameSteps ==
  ASSUME NEW c \in Nat, c >= 1, NEW x \in Nat, NEW y \in Nat, x % c = y % c, NEW k \in Nat
  PROVE  (x + k) % c = (y + k) % c
  <1>1. ASSUME NEW z \in Nat
        PROVE  (z + k) % c = ((z % c) + k) % c
    <2>1. PICK a \in Nat, b \in 0..c - 1 : z = c * a + b /\ z % c = b
      BY Quotient
    <2>2. b + k \in Nat
      BY <2>1
    <2>3. PICK d \in Nat, f \in 0..c - 1 : b + k = c * d + f /\ (b + k) % c = f
      BY <2>2, Quotient
    <2>4. c * (a + d) = c * a + c * d
      BY Z3
    <2>5. PICK ca, cd, cs : ca = c * a /\ cd = c * d /\ cs = c * (a + d)
      OBVIOUS
    <2>6. ca \in Nat /\ cd \in Nat /\ cs \in Nat
      BY <2>5, Z3
    <2>7. z + k = cs + f
      BY <2>1, <2>3, <2>4, <2>5, <2>6
    <2>8. a + d \in Nat
      BY <2>1, <2>3
    <2>9. (c * (a + d) + f) % c = f
      BY <2>8, Remainder
    <2> QED BY <2>1, <2>3, <2>5, <2>7, <2>9
  <1> QED BY <1>1

LEMMA FullTurn ==
  ASSUME NEW c \in Nat, c >= 1, NEW x \in Nat
  PROVE  (x + c) % c = x % c
  <1>1. PICK a \in Nat, b \in 0..c - 1 : x = c * a + b /\ x % c = b
    BY Quotient
  <1>2. c * (a + 1) = c * a + c
    BY Z3
  <1>3. a + 1 \in Nat
    BY <1>1
  <1>4. (c * (a + 1) + b) % c = b
    BY <1>3, Remainder
  <1>5. PICK ca, cs : ca = c * a /\ cs = c * (a + 1)
    OBVIOUS
  <1>6. ca \in Nat /\ cs \in Nat
    BY <1>5, <1>3, Z3
  <1>7. x + c = cs + b
    BY <1>1, <1>2, <1>5, <1>6
  <1> QED BY <1>1, <1>4, <1>5, <1>7

LEMMA Small ==
  ASSUME NEW c \in Nat, c >= 1, NEW x \in 0..c - 1
  PROVE  x % c = x
  BY Z3

(* Probing visits every slot once.                                         *)
LEMMA Places ==
  ASSUME NEW h, h.probe \in [Ids -> 0..cap - 1], NEW id \in Ids
  PROVE  /\ \A d \in Nat : Place(h, id, d) \in 0..cap - 1
         /\ \A d, f \in 0..cap - 1 : Place(h, id, d) = Place(h, id, f) => d = f
         /\ \A p \in 0..cap - 1 : \E d \in 0..cap - 1 : Place(h, id, d) = p
         /\ \A d \in Nat : Place(h, id, d + cap) = Place(h, id, d)
  <1>1. PICK b \in 0..cap - 1 : b = h.probe[id]
    OBVIOUS
  <1>2. cap \in Nat /\ cap >= 1 /\ b \in Nat
    BY <1>1, CapIsEnough
  <1>3. ASSUME NEW d \in Nat
        PROVE  Place(h, id, d) \in 0..cap - 1
    <2>1. b + d \in Nat
      BY <1>2
    <2>2. (b + d) % cap \in 0..cap - 1
      BY <1>2, <2>1, Quotient
    <2> QED BY <1>1, <2>2 DEF Place
  <1>4. ASSUME NEW d \in 0..cap - 1, NEW f \in 0..cap - 1, Place(h, id, d) = Place(h, id, f)
        PROVE  d = f
    <2>1. b + d \in Nat /\ b + f \in Nat /\ b + d < b + f + cap /\ b + f < b + d + cap
      BY <1>2
    <2>2. (b + d) % cap = (b + f) % cap
      BY <1>1, <1>4 DEF Place
    <2>3. b + d = b + f
      BY <1>2, <2>1, <2>2, SameBucket
    <2> QED BY <1>2, <2>3
  <1>5. ASSUME NEW p \in 0..cap - 1
        PROVE  \E d \in 0..cap - 1 : Place(h, id, d) = p
    <2>1. CASE p >= b
      <3>1. p - b \in 0..cap - 1 /\ b + (p - b) = p
        BY <1>2, <2>1
      <3>2. p % cap = p
        BY <1>2, Small
      <3> QED BY <1>1, <3>1, <3>2 DEF Place
    <2>2. CASE p < b
      <3>1. p - b + cap \in 0..cap - 1 /\ b + (p - b + cap) = p + cap /\ p \in Nat
        BY <1>2, <2>2
      <3>2. p % cap = p
        BY <1>2, Small
      <3>3. (p + cap) % cap = p
        BY <1>2, <3>1, <3>2, FullTurn
      <3> QED BY <1>1, <3>1, <3>3 DEF Place
    <2> QED BY <1>2, <2>1, <2>2
  <1>6. ASSUME NEW d \in Nat
        PROVE  Place(h, id, d + cap) = Place(h, id, d)
    <2>1. b + d \in Nat /\ b + (d + cap) = (b + d) + cap
      BY <1>2
    <2>2. ((b + d) + cap) % cap = (b + d) % cap
      BY <1>2, <2>1, FullTurn
    <2> QED BY <1>1, <2>1, <2>2 DEF Place
  <1> QED BY <1>3, <1>4, <1>5, <1>6

(* The slots that hold an id or once did, and those an id has come to.     *)
Filled(h) == {p \in 0..cap - 1 : h.keys[p] # 0}
Reaches(h, id, p) ==
  \E d \in 0..cap - 1 : Place(h, id, d) = p /\ \A f \in 0..d : h.keys[Place(h, id, f)] # 0
(* Each filled slot can be charged to an id of its own that reaches it,    *)
(* a slot in use to the id that it holds: this is why erased slots, which  *)
(* never become empty again, cannot fill the table.                        *)
Charged(h, m) ==
  /\ \A p, r \in Filled(h) : m[p] = m[r] => p = r
  /\ \A p \in Filled(h) : Reaches(h, m[p], p) /\ (h.keys[p] \in Ids => m[p] = h.keys[p])
TableShape(h) ==
  /\ h = [keys |-> h.keys, used |-> h.used, entries |-> h.entries, probe |-> h.probe]
  /\ h.keys = [p \in 0..cap - 1 |-> h.keys[p]] /\ h.used = [p \in 0..cap - 1 |-> h.used[p]]
  /\ h.entries = [p \in 0..cap - 1 |-> h.entries[p]] /\ h.probe \in [Ids -> 0..cap - 1]
  /\ \A p \in 0..cap - 1 : /\ h.keys[p] \in Ids \cup {0, 1} /\ h.used[p] \in BOOLEAN
                           /\ h.used[p] <=> h.keys[p] \in Ids
(* The table holds D.                                                      *)
Holds(h, D) ==
  /\ \A p \in 0..cap - 1 : h.keys[p] \in Ids => h.keys[p] \in DOMAIN D /\ h.entries[p] = D[h.keys[p]]
  /\ \A id \in DOMAIN D : \E p \in 0..cap - 1 : h.keys[p] = id
TableInv(h, D) == TableShape(h) /\ (\E m \in [Filled(h) -> Ids] : Charged(h, m)) /\ Holds(h, D)

(* An empty slot remains.                                                  *)
LEMMA FilledCount ==
  ASSUME NEW h, NEW m \in [Filled(h) -> Ids], Charged(h, m)
  PROVE  /\ IsFiniteSet(Filled(h)) /\ Cardinality(Filled(h)) <= Cardinality(Ids)
         /\ Filled(h) # 0..cap - 1
  <1>1. m \in Injection(Filled(h), Ids)
    BY DEF Charged, Injection, IsInjective
  <1>2. IsFiniteSet(Filled(h)) /\ Cardinality(Filled(h)) <= Cardinality(Ids)
    BY <1>1, CapIsEnough, FS_Injection
  <1>3. Cardinality(0..cap - 1) = cap
    <2>1. 0 \in Int /\ cap - 1 \in Int /\ ~(0 > cap - 1) /\ cap - 1 - 0 + 1 = cap
      BY CapIsEnough
    <2> QED BY <2>1, FS_Interval
  <1>4. Filled(h) # 0..cap - 1
    <2>1. SUFFICES ASSUME Filled(h) = 0..cap - 1 PROVE FALSE
      OBVIOUS
    <2> QED BY <1>2, <1>3, <2>1, CapIsEnough
  <1> QED BY <1>2, <1>4

LEMMA FirstIsLeast ==
  ASSUME NEW S, S \subseteq Nat, S # {}
  PROVE  FHeap!First(S) \in S /\ \A x \in S : FHeap!First(S) <= x
  <1>1. \E d \in S : \A x \in S : d <= x
    BY LeastNumber
  <1> QED BY <1>1 DEF FHeap!First

(* A look-up ends at the slot of its id, or at an empty one if it has      *)
(* none; it goes through filled slots until then.                          *)
LEMMA Lookup ==
  ASSUME NEW h, NEW D, TableInv(h, D), 1 \notin Ids, NEW id \in Ids
  PROVE  LET d == FHeap!First(FHeap!Stops(h, id)) IN
         /\ d \in 0..cap - 1 /\ \A f \in 0..d - 1 : h.keys[Place(h, id, f)] \notin {0, id}
         /\ id \in DOMAIN D <=> FHeap!Hit(h, id, d)
         /\ h.keys[Place(h, id, d)] = IF id \in DOMAIN D THEN id ELSE 0
  <1>1. PICK S : S = FHeap!Stops(h, id)
    OBVIOUS
  <1>2. S = {d \in 0..cap - 1 : h.keys[Place(h, id, d)] = 0 \/ h.keys[Place(h, id, d)] = id}
    BY <1>1, CapIsEnough DEF FHeap!Stops, FHeap!Hit, FHeap!At, FHeap!kEmpty, FHeap!kTomb, Place, cap
  <1>3. /\ h.probe \in [Ids -> 0..cap - 1]
        /\ \A p \in 0..cap - 1 : h.keys[p] \in Ids \cup {0, 1}
    BY DEF TableInv, TableShape
  <1>4. PICK m \in [Filled(h) -> Ids] : Charged(h, m)
    BY DEF TableInv
  <1>5. S # {}
    <2>1. PICK p \in 0..cap - 1 : h.keys[p] = 0
      BY <1>4, FilledCount DEF Filled
    <2>2. \A r \in 0..cap - 1 : \E d \in 0..cap - 1 : Place(h, id, d) = r
      BY <1>3, Places, Zenon
    <2>3. PICK d \in 0..cap - 1 : Place(h, id, d) = p
      BY <2>1, <2>2
    <2> QED BY <1>2, <2>1, <2>3
  <1>6. PICK d : d = FHeap!First(S)
    OBVIOUS
  <1>7. d \in S /\ \A x \in S : d <= x
    <2>1. S \subseteq Nat
      BY <1>2, CapIsEnough
    <2> QED BY <1>5, <1>6, <2>1, FirstIsLeast
  <1>8. d \in 0..cap - 1 /\ \A f \in 0..d - 1 : h.keys[Place(h, id, f)] \notin {0, id}
    <2>1. d \in 0..cap - 1
      BY <1>2, <1>7
    <2>2. ASSUME NEW f \in 0..d - 1
          PROVE  f \in 0..cap - 1 /\ f \notin S
      BY <1>7, <2>1, CapIsEnough
    <2> QED BY <1>2, <2>1, <2>2
  <1>9. 0 \notin Ids
    BY IdsAssumption
  <1>10. CASE id \in DOMAIN D
    <2>1. PICK p \in 0..cap - 1 : h.keys[p] = id
      BY <1>10 DEF TableInv, Holds
    <2>2. p \in Filled(h) /\ m[p] = id
      BY <1>4, <1>9, <2>1 DEF Filled, Charged
    <2>3. PICK x \in 0..cap - 1 : Place(h, id, x) = p /\ \A f \in 0..x : h.keys[Place(h, id, f)] # 0
      BY <1>4, <2>2 DEF Charged, Reaches
    <2>4. d <= x
      BY <1>2, <1>7, <2>1, <2>3
    <2>5. d \in 0..x
      BY <1>8, <2>3, <2>4
    <2>6. h.keys[Place(h, id, d)] = id
      BY <1>2, <1>7, <2>3, <2>5
    <2> QED BY <1>1, <1>6, <1>8, <1>10, <2>6 DEF FHeap!Hit, FHeap!At, FHeap!kTomb, Place, cap
  <1>11. CASE id \notin DOMAIN D
    <2>1. Place(h, id, d) \in 0..cap - 1
      <3>1. d \in Nat
        BY <1>8
      <3> QED BY <1>3, <3>1, Places
    <2>2. h.keys[Place(h, id, d)] # id
      BY <1>11, <2>1 DEF TableInv, Holds
    <2>3. h.keys[Place(h, id, d)] = 0
      BY <1>2, <1>7, <2>2
    <2> QED BY <1>1, <1>6, <1>8, <1>11, <2>2, <2>3 DEF FHeap!Hit, FHeap!At, FHeap!kTomb, Place, cap
  <1> QED BY <1>10, <1>11

LEMMA OneSlotEach ==
  ASSUME NEW h, NEW D, TableInv(h, D),
         NEW p \in 0..cap - 1, NEW r \in 0..cap - 1, h.keys[p] \in Ids, h.keys[p] = h.keys[r]
  PROVE  p = r
  <1>1. PICK m \in [Filled(h) -> Ids] : Charged(h, m)
    BY DEF TableInv
  <1>2. p \in Filled(h) /\ r \in Filled(h)
    BY IdsAssumption DEF Filled
  <1> QED BY <1>1, <1>2 DEF Charged

(* findIndex.                                                              *)
LEMMA FoundWhereStored ==
  ASSUME NEW h, NEW D, TableInv(h, D), 1 \notin Ids, NEW id \in Ids
  PROVE  /\ \A p \in 0..cap - 1 : h.keys[p] = id => FHeap!findIndex(h, id) = p
         /\ id \in DOMAIN D => /\ FHeap!findIndex(h, id) \in 0..cap - 1
                               /\ h.keys[FHeap!findIndex(h, id)] = id
         /\ id \notin DOMAIN D => FHeap!findIndex(h, id) = cap
  <1>1. PICK d : d = FHeap!First(FHeap!Stops(h, id))
    OBVIOUS
  <1>2. /\ d \in 0..cap - 1
        /\ id \in DOMAIN D <=> FHeap!Hit(h, id, d)
        /\ h.keys[Place(h, id, d)] = IF id \in DOMAIN D THEN id ELSE 0
    BY <1>1, Lookup
  <1>3. Place(h, id, d) \in 0..cap - 1
    <2>1. h.probe \in [Ids -> 0..cap - 1] /\ d \in Nat
      BY <1>2 DEF TableInv, TableShape
    <2> QED BY <2>1, Places
  <1>4. FHeap!findIndex(h, id) = IF id \in DOMAIN D THEN Place(h, id, d) ELSE cap
    BY <1>1, <1>2 DEF FHeap!findIndex, FHeap!npos, FHeap!At, Place, cap
  <1>5. ASSUME NEW p \in 0..cap - 1, h.keys[p] = id
        PROVE  FHeap!findIndex(h, id) = p
    <2>1. id \in DOMAIN D
      BY <1>5 DEF TableInv, Holds
    <2>2. h.keys[Place(h, id, d)] = h.keys[p]
      BY <1>2, <1>5, <2>1
    <2>3. Place(h, id, d) = p
      BY <1>3, <1>5, <2>2, OneSlotEach
    <2> QED BY <1>4, <2>1, <2>3
  <1> QED BY <1>2, <1>3, <1>4, <1>5

(* Two ways that meet go on together.                                      *)
LEMMA Onward ==
  ASSUME NEW h, h.probe \in [Ids -> 0..cap - 1], NEW w \in Ids, NEW x \in Ids,
         NEW dx \in 0..cap - 1, NEW dr \in 0..cap - 1, dx <= dr,
         Reaches(h, w, Place(h, x, dx)),
         \A f \in dx..dr : h.keys[Place(h, x, f)] # 0
  PROVE  Reaches(h, w, Place(h, x, dr))
  <1>1. PICK d \in 0..cap - 1 : /\ Place(h, w, d) = Place(h, x, dx)
                               /\ \A f \in 0..d : h.keys[Place(h, w, f)] # 0
    BY DEF Reaches
  <1>2. cap \in Nat /\ cap >= 1
    BY CapIsEnough
  <1>3. ASSUME NEW k \in Nat
        PROVE  Place(h, w, d + k) = Place(h, x, dx + k)
    <2>1. PICK a, b : a = h.probe[w] /\ b = h.probe[x]
      OBVIOUS
    <2>2. a + d \in Nat /\ b + dx \in Nat /\ a + (d + k) = (a + d) + k /\ b + (dx + k) = (b + dx) + k
      BY <1>2, <2>1
    <2>3. (a + d) % cap = (b + dx) % cap
      BY <1>1, <2>1 DEF Place
    <2>4. ((a + d) + k) % cap = ((b + dx) + k) % cap
      BY <1>2, <2>2, <2>3, SameSteps
    <2> QED BY <2>1, <2>2, <2>4 DEF Place
  <1>4. PICK k : k = dr - dx
    OBVIOUS
  <1>5. k \in Nat /\ dx + k = dr /\ k < cap
    BY <1>2, <1>4
  <1>6. Place(h, w, d + k) = Place(h, x, dr)
    BY <1>3, <1>5
  <1>7. CASE d + k < cap
    <2>1. d + k \in 0..cap - 1
      BY <1>2, <1>5, <1>7
    <2>2. ASSUME NEW f \in 0..d + k
          PROVE  h.keys[Place(h, w, f)] # 0
      <3>1. CASE f <= d
        BY <1>1, <2>2, <3>1
      <3>2. CASE f > d
        <4>1. f - d \in Nat /\ d + (f - d) = f /\ dx + (f - d) \in dx..dr
          BY <1>2, <1>5, <2>2, <3>2
        <4>2. Place(h, w, f) = Place(h, x, dx + (f - d))
          BY <1>3, <4>1
        <4> QED BY <4>1, <4>2
      <3> QED BY <1>2, <1>5, <2>2, <3>1, <3>2
    <2> QED BY <1>6, <2>1, <2>2 DEF Reaches
  <1>8. CASE d + k >= cap
    <2>1. PICK g : g = d + k - cap
      OBVIOUS
    <2>2. g \in 0..cap - 1 /\ g + cap = d + k /\ g <= d /\ g \in Nat
      BY <1>2, <1>5, <1>8, <2>1
    <2>3. Place(h, w, g) = Place(h, x, dr)
      <3>1. \A f \in Nat : Place(h, w, f + cap) = Place(h, w, f)
        BY Places, Zenon
      <3>2. Place(h, w, g + cap) = Place(h, w, g)
        BY <2>2, <3>1, Zenon
      <3> QED BY <1>6, <2>2, <3>2, Zenon
    <2>4. \A f \in 0..g : h.keys[Place(h, w, f)] # 0
      BY <1>1, <2>2
    <2> QED BY <2>2, <2>3, <2>4 DEF Reaches
  <1> QED BY <1>2, <1>5, <1>7, <1>8

(* Ways stay open as long as no slot becomes empty.                        *)
LEMMA StillReaches ==
  ASSUME NEW h, NEW g, h.probe \in [Ids -> 0..cap - 1], g.probe = h.probe,
         \A p \in 0..cap - 1 : h.keys[p] # 0 => g.keys[p] # 0,
         NEW id \in Ids, NEW p, Reaches(h, id, p)
  PROVE  Reaches(g, id, p)
  <1>1. \A d : Place(g, id, d) = Place(h, id, d)
    BY DEF Place
  <1>2. PICK d \in 0..cap - 1 : Place(h, id, d) = p /\ \A f \in 0..d : h.keys[Place(h, id, f)] # 0
    BY DEF Reaches
  <1>3. ASSUME NEW f \in 0..d
        PROVE  g.keys[Place(g, id, f)] # 0
    <2>1. f \in Nat
      OBVIOUS
    <2>2. Place(h, id, f) \in 0..cap - 1
      BY <2>1, Places
    <2> QED BY <1>1, <1>2, <2>2
  <1> QED BY <1>1, <1>2, <1>3 DEF Reaches

(* eraseAt.                                                                *)
LEMMA EraseKeepsTable ==
  ASSUME NEW h, NEW D, NEW K, NEW S, TableInv(h, D), 1 \notin Ids,
         DOMAIN K \subseteq DOMAIN D, \A id \in DOMAIN K : K[id] = D[id],
         S = {p \in 0..cap - 1 : h.keys[p] \in Ids /\ h.keys[p] \notin DOMAIN K}
  PROVE  TableInv(FHeap!Erase(h, S), K)
  <1> DEFINE g == FHeap!Erase(h, S)
             keys == [p \in 0..cap - 1 |-> IF p \in S THEN 1 ELSE h.keys[p]]
             used == [p \in 0..cap - 1 |-> h.used[p] /\ p \notin S]
             entries == [p \in 0..cap - 1 |-> IF p \in S THEN Blank ELSE h.entries[p]]
  <1>1. TableShape(h) /\ Holds(h, D)
    BY DEF TableInv
  <1>2. g = [keys |-> keys, used |-> used, entries |-> entries, probe |-> h.probe]
    <2>1. PICK k, u, e, b : h = [keys |-> k, used |-> u, entries |-> e, probe |-> b]
      BY <1>1 DEF TableShape
    <2>2. g = [h EXCEPT !.keys = keys, !.used = used, !.entries = entries]
      BY CapIsEnough, FHeapEntry DEF FHeap!Erase, FHeap!kTomb
    <2>3. h.probe = b
      BY <2>1
    <2> HIDE DEF keys, used, entries, g
    <2> QED BY <2>1, <2>2, <2>3
  <1>3. g.keys = keys /\ g.used = used /\ g.entries = entries /\ g.probe = h.probe
    <2> HIDE DEF keys, used, entries, g
    <2> QED BY <1>2
  <1>4. TableShape(g)
    <2>1. \A p \in 0..cap - 1 : /\ keys[p] \in Ids \cup {0, 1} /\ used[p] \in BOOLEAN
                                /\ used[p] <=> keys[p] \in Ids
      BY <1>1 DEF TableShape
    <2>2. h.probe \in [Ids -> 0..cap - 1]
      BY <1>1 DEF TableShape
    <2>3. /\ keys = [p \in 0..cap - 1 |-> keys[p]] /\ used = [p \in 0..cap - 1 |-> used[p]]
          /\ entries = [p \in 0..cap - 1 |-> entries[p]]
      OBVIOUS
    <2> HIDE DEF keys, used, entries, g
    <2> QED BY <1>2, <1>3, <2>1, <2>2, <2>3 DEF TableShape
  <1>5. Holds(g, K)
    <2>1. ASSUME NEW p \in 0..cap - 1, keys[p] \in Ids
          PROVE  keys[p] \in DOMAIN K /\ entries[p] = K[keys[p]]
      <3>1. p \notin S /\ keys[p] = h.keys[p] /\ entries[p] = h.entries[p]
        BY <2>1
      <3> QED BY <1>1, <2>1, <3>1 DEF Holds
    <2>2. ASSUME NEW id \in DOMAIN K
          PROVE  \E p \in 0..cap - 1 : keys[p] = id
      <3>1. PICK p \in 0..cap - 1 : h.keys[p] = id
        BY <1>1 DEF Holds
      <3>2. CASE p \notin S
        BY <3>1, <3>2
      <3>3. CASE p \in S
        BY <2>2, <3>1, <3>3
      <3> QED BY <3>2, <3>3
    <2> HIDE DEF keys, entries, g
    <2> QED BY <1>3, <2>1, <2>2 DEF Holds
  <1>6. \E m \in [Filled(g) -> Ids] : Charged(g, m)
    <2>1. PICK m \in [Filled(h) -> Ids] : Charged(h, m)
      BY DEF TableInv
    <2>2. \A p \in 0..cap - 1 : /\ keys[p] # 0 <=> h.keys[p] # 0
                                /\ keys[p] \in Ids => keys[p] = h.keys[p]
      BY IdsAssumption
    <2>3. h.probe \in [Ids -> 0..cap - 1]
      BY <1>1 DEF TableShape
    <2> HIDE DEF keys, used, entries, g
    <2>4. Filled(g) = Filled(h)
      BY <1>3, <2>2 DEF Filled
    <2>5. ASSUME NEW p \in Filled(g)
          PROVE  Reaches(g, m[p], p) /\ (g.keys[p] \in Ids => m[p] = g.keys[p])
      <3>1. p \in Filled(h) /\ p \in 0..cap - 1 /\ m[p] \in Ids
        BY <2>4, <2>5 DEF Filled
      <3>2. Reaches(h, m[p], p) /\ (h.keys[p] \in Ids => m[p] = h.keys[p])
        BY <2>1, <3>1 DEF Charged
      <3>3. Reaches(g, m[p], p)
        BY <1>3, <2>2, <2>3, <3>1, <3>2, StillReaches
      <3> QED BY <1>3, <2>2, <3>1, <3>2, <3>3
    <2>6. Charged(g, m)
      BY <2>1, <2>4, <2>5 DEF Charged
    <2> QED BY <2>4, <2>6
  <1> QED BY <1>4, <1>5, <1>6 DEF TableInv

(* findOrInsert takes the slot of the id, the first erased slot on its     *)
(* way, or the empty one at the end of it; the id can be charged for it.   *)
LEMMA Insertion ==
  ASSUME NEW h, NEW D, TableInv(h, D), 1 \notin Ids, NEW id \in Ids
  PROVE  LET p == FHeap!SlotOf(h, id) IN
         /\ p \in 0..cap - 1
         /\ h.keys[p] = IF id \in DOMAIN D THEN id ELSE h.keys[p]
         /\ id \notin DOMAIN D => h.keys[p] \in {0, 1}
         /\ \A g : /\ g.probe = h.probe
                   /\ g.keys = [r \in 0..cap - 1 |-> IF r = p THEN id ELSE h.keys[r]]
                   => \E m \in [Filled(g) -> Ids] : Charged(g, m)
  <1>1. PICK d, p : d = FHeap!First(FHeap!Stops(h, id)) /\ p = FHeap!SlotOf(h, id)
    OBVIOUS
  <1>2. /\ d \in 0..cap - 1 /\ \A f \in 0..d - 1 : h.keys[Place(h, id, f)] \notin {0, id}
        /\ id \in DOMAIN D <=> FHeap!Hit(h, id, d)
        /\ h.keys[Place(h, id, d)] = IF id \in DOMAIN D THEN id ELSE 0
    BY <1>1, Lookup
  <1>3. /\ h.probe \in [Ids -> 0..cap - 1] /\ 0 \notin Ids /\ id # 0 /\ cap \in Nat /\ cap >= 1
        /\ \A r \in 0..cap - 1 : h.keys[r] \in Ids \cup {0, 1}
    BY IdsAssumption, CapIsEnough DEF TableInv, TableShape
  <1>4. \A f \in Nat : Place(h, id, f) \in 0..cap - 1
    BY <1>3, Places
  <1>5. PICK T : T = FHeap!Tombs(h, id)
    OBVIOUS
  <1>6. T = {f \in 0..cap - 1 : h.keys[Place(h, id, f)] = 1 /\ f < d}
    BY <1>1, <1>5, CapIsEnough DEF FHeap!Tombs, FHeap!At, FHeap!kTomb, Place, cap
  <1>7. p = IF id \in DOMAIN D \/ T = {} THEN Place(h, id, d) ELSE Place(h, id, FHeap!First(T))
    BY <1>1, <1>2, <1>5 DEF FHeap!SlotOf, FHeap!At, Place, cap
  <1>8. PICK m \in [Filled(h) -> Ids] : Charged(h, m)
    BY DEF TableInv
  <1>9. PICK e \in 0..d : /\ p = Place(h, id, e)
                          /\ id \in DOMAIN D \/ T = {} => e = d
                          /\ id \notin DOMAIN D /\ T # {} => e \in T /\ \A f \in T : e <= f
    <2>1. CASE id \in DOMAIN D \/ T = {}
      BY <1>2, <1>7, <2>1
    <2>2. CASE id \notin DOMAIN D /\ T # {}
      <3>1. T \subseteq Nat
        BY <1>6
      <3>2. FHeap!First(T) \in T /\ \A f \in T : FHeap!First(T) <= f
        BY <2>2, <3>1, FirstIsLeast
      <3>3. FHeap!First(T) \in 0..d
        BY <1>2, <1>6, <3>2
      <3> QED BY <1>7, <2>2, <3>2, <3>3
    <2> QED BY <2>1, <2>2
  <1>10. p \in 0..cap - 1
    <2>1. e \in Nat
      BY <1>2
    <2> QED BY <1>4, <1>9, <2>1
  <1>11. h.keys[p] = (IF id \in DOMAIN D THEN id ELSE h.keys[p])
         /\ (id \notin DOMAIN D => h.keys[p] \in {0, 1})
    BY <1>2, <1>6, <1>9
  <1>12. ASSUME NEW g, g.probe = h.probe,
                g.keys = [r \in 0..cap - 1 |-> IF r = p THEN id ELSE h.keys[r]]
         PROVE  \E k \in [Filled(g) -> Ids] : Charged(g, k)
    <2>1. \A r \in 0..cap - 1 : g.keys[r] = IF r = p THEN id ELSE h.keys[r]
      BY <1>12
    <2>2. Filled(g) = Filled(h) \cup {p}
      BY <1>3, <1>10, <2>1 DEF Filled
    <2>3. ASSUME NEW w \in Ids, NEW r, Reaches(h, w, r)
          PROVE  Reaches(g, w, r)
      <3>1. \A x \in 0..cap - 1 : h.keys[x] # 0 => g.keys[x] # 0
        BY <1>3, <2>1
      <3> QED BY <1>3, <1>12, <2>3, <3>1, StillReaches
    <2>4. Reaches(g, id, p)
      <3>1. ASSUME NEW f \in 0..e
            PROVE  g.keys[Place(g, id, f)] # 0
        <4>1. Place(g, id, f) = Place(h, id, f) /\ f \in Nat
          BY <1>12 DEF Place
        <4>2. Place(h, id, f) \in 0..cap - 1
          BY <1>4, <4>1
        <4>3. CASE f = e
          BY <1>3, <1>9, <2>1, <4>1, <4>2, <4>3
        <4>4. CASE f # e
          <5>1. f \in 0..d - 1
            BY <1>2, <3>1, <4>4
          <5> QED BY <1>2, <1>3, <2>1, <4>1, <4>2, <5>1
        <4> QED BY <4>3, <4>4
      <3>2. e \in 0..cap - 1 /\ Place(g, id, e) = p
        <4>1. e \in 0..cap - 1
          BY <1>2, <1>3
        <4> QED BY <1>9, <1>12, <4>1 DEF Place
      <3> QED BY <3>1, <3>2 DEF Reaches
    <2>5. CASE \A r \in Filled(h) : m[r] = id => r = p
      <3>1. PICK k : k = [r \in Filled(g) |-> IF r = p THEN id ELSE m[r]]
        OBVIOUS
      <3>2. k \in [Filled(g) -> Ids]
        BY <2>2, <3>1
      <3>3. \A r, x \in Filled(g) : k[r] = k[x] => r = x
        BY <1>8, <2>2, <2>5, <3>1 DEF Charged
      <3>4. ASSUME NEW r \in Filled(g)
            PROVE  Reaches(g, k[r], r) /\ (g.keys[r] \in Ids => k[r] = g.keys[r])
        <4>1. CASE r = p
          BY <1>10, <2>1, <2>4, <3>1, <3>4, <4>1
        <4>2. CASE r # p
          <5>1. r \in Filled(h) /\ r \in 0..cap - 1 /\ k[r] = m[r] /\ m[r] \in Ids
            BY <2>2, <3>1, <3>4, <4>2 DEF Filled
          <5> QED BY <1>8, <2>1, <2>3, <4>2, <5>1 DEF Charged
        <4> QED BY <4>1, <4>2
      <3> QED BY <3>2, <3>3, <3>4 DEF Charged
    <2>6. CASE \E r \in Filled(h) : m[r] = id /\ r # p
      <3>1. PICK r \in Filled(h) : m[r] = id /\ r # p
        BY <2>6
      <3>2. r \in 0..cap - 1 /\ h.keys[r] # 0
        BY DEF Filled
      <3>3. PICK x \in 0..cap - 1 : Place(h, id, x) = r /\ \A f \in 0..x : h.keys[Place(h, id, f)] # 0
        BY <1>8, <3>1 DEF Charged, Reaches
      <3>4. id \notin DOMAIN D
        <4>1. SUFFICES ASSUME id \in DOMAIN D PROVE FALSE
          OBVIOUS
        <4>2. h.keys[p] = id
          BY <1>11, <4>1
        <4>3. p \in Filled(h) /\ m[p] = id
          BY <1>3, <1>8, <1>10, <4>2 DEF Filled, Charged
        <4> QED BY <1>8, <3>1, <4>3 DEF Charged
      <3>5. x < d
        <4>1. h.keys[Place(h, id, d)] = 0
          BY <1>2, <3>4
        <4>2. ~(d \in 0..x)
          BY <3>3, <4>1
        <4> QED BY <1>2, <3>3, <4>2
      <3>6. h.keys[r] = 1
        <4>1. h.keys[r] \notin Ids
          <5>1. SUFFICES ASSUME h.keys[r] \in Ids PROVE FALSE
            OBVIOUS
          <5>2. m[r] = h.keys[r]
            BY <1>8, <5>1 DEF Charged
          <5> QED BY <3>1, <3>2, <3>4, <5>2 DEF TableInv, Holds
        <4> QED BY <1>3, <3>2, <4>1
      <3>7. x \in T /\ T # {}
        BY <1>6, <3>3, <3>5, <3>6
      <3>8. e \in T /\ e <= x /\ h.keys[p] = 1
        BY <1>6, <1>9, <3>4, <3>7
      <3>9. p \in Filled(h) /\ Filled(g) = Filled(h)
        BY <1>10, <2>2, <3>8 DEF Filled
      <3>10. PICK w \in Ids : w = m[p]
        BY <1>8, <3>9
      <3>11. w # id
        BY <1>8, <3>1, <3>9, <3>10 DEF Charged
      <3>12. Reaches(h, w, r)
        <4>1. Reaches(h, w, Place(h, id, e))
          BY <1>8, <1>9, <3>9, <3>10 DEF Charged
        <4>2. \A f \in e..x : h.keys[Place(h, id, f)] # 0
          BY <1>6, <3>3, <3>8
        <4>3. e \in 0..cap - 1
          BY <1>6, <3>8
        <4>4. Reaches(h, w, Place(h, id, x))
          BY <1>3, <3>3, <3>8, <4>1, <4>2, <4>3, Onward
        <4> QED BY <3>3, <4>4
      <3>13. PICK k : k = [y \in Filled(g) |-> IF y = p THEN id ELSE IF y = r THEN w ELSE m[y]]
        OBVIOUS
      <3>14. k \in [Filled(g) -> Ids]
        BY <3>9, <3>13
      <3>15. \A y, z \in Filled(g) : k[y] = k[z] => y = z
        <4>1. \A y \in Filled(h) : y # p /\ y # r => m[y] # id /\ m[y] # w
          BY <1>8, <3>1, <3>9, <3>10 DEF Charged
        <4> QED BY <1>8, <3>1, <3>9, <3>11, <3>13, <4>1 DEF Charged
      <3>16. ASSUME NEW y \in Filled(g)
             PROVE  Reaches(g, k[y], y) /\ (g.keys[y] \in Ids => k[y] = g.keys[y])
        <4>1. CASE y = p
          BY <1>10, <2>1, <2>4, <3>13, <3>16, <4>1
        <4>2. CASE y = r
          BY <2>1, <2>3, <3>1, <3>2, <3>6, <3>12, <3>13, <3>16, <4>2
        <4>3. CASE y # p /\ y # r
          <5>1. y \in Filled(h) /\ y \in 0..cap - 1 /\ k[y] = m[y] /\ m[y] \in Ids
            BY <3>9, <3>13, <3>16, <4>3 DEF Filled
          <5> QED BY <1>8, <2>1, <2>3, <4>3, <5>1 DEF Charged
        <4> QED BY <4>1, <4>2, <4>3
      <3> QED BY <3>14, <3>15, <3>16 DEF Charged
    <2> QED BY <2>5, <2>6
  <1> QED BY <1>1, <1>10, <1>11, <1>12

(* findOrInsert and the store of the entry.                                *)
LEMMA StoreKeepsTable ==
  ASSUME NEW h, NEW D, TableInv(h, D), DOMAIN D \subseteq Ids, 1 \notin Ids, NEW e \in Timed
  PROVE  /\ FHeap!Found(h, e.id) = Old(D, e.id)
         /\ TableInv(FHeap!Store(h, e.id, Updated(Old(D, e.id), e)), Put(D, e))
  <1>1. PICK id \in Ids : id = e.id
    BY DEF Timed
  <1>2. PICK u, p : u = Updated(Old(D, e.id), e) /\ p = FHeap!SlotOf(h, id)
    OBVIOUS
  <1>3. /\ p \in 0..cap - 1
        /\ id \in DOMAIN D => h.keys[p] = id
        /\ id \notin DOMAIN D => h.keys[p] \in {0, 1}
    BY <1>2, Insertion
  <1>4. TableShape(h) /\ Holds(h, D) /\ 0 \notin Ids
    BY IdsAssumption DEF TableInv
  <1>5. FHeap!Found(h, id) = Old(D, id)
    <2>1. CASE id \in DOMAIN D
      <3>1. FHeap!findIndex(h, id) # cap
        <4>1. FHeap!findIndex(h, id) \in 0..cap - 1
          BY <2>1, FoundWhereStored
        <4> QED BY <4>1, CapIsEnough
      <3>2. h.entries[p] = D[id]
        BY <1>3, <1>4, <2>1 DEF Holds
      <3> QED BY <1>2, <2>1, <3>1, <3>2 DEF FHeap!Found, FHeap!npos, cap, Old
    <2>2. CASE id \notin DOMAIN D
      <3>1. FHeap!findIndex(h, id) = cap
        BY <2>2, FoundWhereStored
      <3> QED BY <2>2, <3>1, FHeapEntry DEF FHeap!Found, FHeap!npos, cap, Old
    <2> QED BY <2>1, <2>2
  <1> DEFINE g == FHeap!Store(h, id, u)
             keys == [r \in 0..cap - 1 |-> IF r = p THEN id ELSE h.keys[r]]
             used == [r \in 0..cap - 1 |-> IF r = p THEN TRUE ELSE h.used[r]]
             entries == [r \in 0..cap - 1 |-> IF r = p THEN u ELSE h.entries[r]]
  <1>6. g = [keys |-> keys, used |-> used, entries |-> entries, probe |-> h.probe]
    <2>1. PICK k, v, w, b : h = [keys |-> k, used |-> v, entries |-> w, probe |-> b]
      BY <1>4 DEF TableShape
    <2>2. g = [h EXCEPT !.keys = [k EXCEPT ![p] = id], !.used = [v EXCEPT ![p] = TRUE],
                        !.entries = [w EXCEPT ![p] = u]]
      BY <1>2, <2>1 DEF FHeap!Store
    <2>3. h.probe = b /\ h.keys = k /\ h.used = v /\ h.entries = w
      BY <2>1
    <2>4. [k EXCEPT ![p] = id] = keys /\ [v EXCEPT ![p] = TRUE] = used /\ [w EXCEPT ![p] = u] = entries
      BY <1>4, <2>3 DEF TableShape
    <2> HIDE DEF keys, used, entries, g
    <2> QED BY <2>1, <2>2, <2>3, <2>4
  <1>7. g.keys = keys /\ g.used = used /\ g.entries = entries /\ g.probe = h.probe
    <2> HIDE DEF keys, used, entries, g
    <2> QED BY <1>6
  <1>8. TableShape(g)
    <2>1. \A r \in 0..cap - 1 : /\ keys[r] \in Ids \cup {0, 1} /\ used[r] \in BOOLEAN
                                /\ used[r] <=> keys[r] \in Ids
      BY <1>4 DEF TableShape
    <2>2. h.probe \in [Ids -> 0..cap - 1]
      BY <1>4 DEF TableShape
    <2>3. /\ keys = [r \in 0..cap - 1 |-> keys[r]] /\ used = [r \in 0..cap - 1 |-> used[r]]
          /\ entries = [r \in 0..cap - 1 |-> entries[r]]
      OBVIOUS
    <2> HIDE DEF keys, used, entries, g
    <2> QED BY <1>6, <1>7, <2>1, <2>2, <2>3 DEF TableShape
  <1>9. /\ DOMAIN Put(D, e) = DOMAIN D \cup {id} /\ Put(D, e)[id] = u
        /\ \A x \in DOMAIN D : x # id => Put(D, e)[x] = D[x]
    BY <1>1, <1>2 DEF Put
  <1>10. Holds(g, Put(D, e))
    <2>1. PICK P : P = Put(D, e)
      OBVIOUS
    <2>2. ASSUME NEW r \in 0..cap - 1, keys[r] \in Ids
          PROVE  keys[r] \in DOMAIN P /\ entries[r] = P[keys[r]]
      <3>1. CASE r = p
        BY <1>9, <2>1, <2>2, <3>1
      <3>2. CASE r # p
        <4>1. keys[r] = h.keys[r] /\ entries[r] = h.entries[r]
          BY <2>2, <3>2
        <4>2. h.keys[r] \in DOMAIN D /\ h.entries[r] = D[h.keys[r]]
          BY <1>4, <2>2, <4>1 DEF Holds
        <4>3. h.keys[r] # id
          <5>1. SUFFICES ASSUME h.keys[r] = id PROVE FALSE
            OBVIOUS
          <5>2. h.keys[p] = id
            BY <1>3, <4>2, <5>1
          <5>3. r = p
            BY <1>3, <2>2, <5>1, <5>2, OneSlotEach
          <5> QED BY <3>2, <5>3
        <4> QED BY <1>9, <2>1, <4>1, <4>2, <4>3
      <3> QED BY <3>1, <3>2
    <2>3. ASSUME NEW x \in DOMAIN P
          PROVE  \E r \in 0..cap - 1 : keys[r] = x
      <3>1. CASE x = id
        BY <1>3, <3>1
      <3>2. CASE x # id
        <4>1. x \in DOMAIN D
          BY <1>9, <2>1, <2>3, <3>2
        <4>2. PICK r \in 0..cap - 1 : h.keys[r] = x
          BY <1>4, <4>1 DEF Holds
        <4>3. r # p
          <5>1. SUFFICES ASSUME r = p PROVE FALSE
            OBVIOUS
          <5>2. x \in Ids \cup {0, 1} /\ id \notin DOMAIN D
            BY <1>3, <1>4, <3>2, <4>2, <5>1 DEF TableShape
          <5>3. x \in {0, 1}
            BY <1>3, <4>2, <5>1, <5>2
          <5>4. x \in Ids
            BY <4>1
          <5> QED BY <1>4, <5>3, <5>4
        <4> QED BY <4>2, <4>3
      <3> QED BY <3>1, <3>2
    <2> HIDE DEF keys, used, entries, g
    <2> QED BY <1>7, <2>1, <2>2, <2>3 DEF Holds
  <1>11. \E m \in [Filled(g) -> Ids] : Charged(g, m)
    <2>1. \A t : /\ t.probe = h.probe
                 /\ t.keys = [r \in 0..cap - 1 |-> IF r = p THEN id ELSE h.keys[r]]
                 => \E m \in [Filled(t) -> Ids] : Charged(t, m)
      BY <1>2, Insertion
    <2>2. g.keys = [r \in 0..cap - 1 |-> IF r = p THEN id ELSE h.keys[r]]
      BY <1>7
    <2> HIDE DEF g
    <2> QED BY <1>7, <2>1, <2>2
  <1>12. TableInv(g, Put(D, e))
    <2> HIDE DEF g
    <2> QED BY <1>8, <1>10, <1>11 DEF TableInv
  <1> QED BY <1>1, <1>2, <1>5, <1>12

LEMMA SameCardinality ==
  \A S : FHeap!Cardinality(S) = Cardinality(S) /\ FWheel!Cardinality(S) = Cardinality(S)
  BY DEF FHeap!Cardinality, FWheel!Cardinality, Cardinality, IsFiniteSet, FHeap!IsFiniteSet, FWheel!IsFiniteSet

(* The table shows D, its look-ups end and find what is stored.            *)
LEMMA TableShows ==
  ASSUME NEW h, NEW D, TableInv(h, D), 1 \notin Ids, D = [id \in DOMAIN D |-> D[id]], DOMAIN D \subseteq Ids
  PROVE  FHeap!Stored(h) = D /\ FHeap!ProbesEnd(h) /\ FHeap!AllFound(h)
  <1>1. TableShape(h) /\ Holds(h, D)
    BY DEF TableInv
  <1>2. FHeap!UsedSlots(h) = {p \in 0..cap - 1 : h.keys[p] \in Ids}
    BY <1>1, CapIsEnough DEF TableShape, FHeap!UsedSlots
  <1>3. PICK U : U = FHeap!UsedSlots(h)
    OBVIOUS
  <1>4. FHeap!Stored(h) = D
    <2>1. {h.keys[p] : p \in U} = DOMAIN D
      <3>1. ASSUME NEW p \in U
            PROVE  h.keys[p] \in DOMAIN D
        BY <1>1, <1>2, <1>3, <3>1 DEF Holds
      <3>2. ASSUME NEW id \in DOMAIN D
            PROVE  \E p \in U : h.keys[p] = id
        <4>1. PICK p \in 0..cap - 1 : h.keys[p] = id
          BY <1>1, <3>2 DEF Holds
        <4> QED BY <1>2, <1>3, <4>1
      <3> QED BY <3>1, <3>2
    <2>2. ASSUME NEW id \in DOMAIN D
          PROVE  h.entries[CHOOSE p \in U : h.keys[p] = id] = D[id]
      <3>1. PICK p : p = CHOOSE x \in U : h.keys[x] = id
        OBVIOUS
      <3>2. \E x \in U : h.keys[x] = id
        <4>1. id \in {h.keys[x] : x \in U}
          BY <2>1
        <4> QED BY <4>1, Zenon
      <3>3. p \in U /\ h.keys[p] = id
        BY <3>1, <3>2, Zenon
      <3>4. h.entries[p] = D[id]
        BY <1>1, <1>2, <1>3, <3>3 DEF Holds
      <3> QED BY <3>1, <3>4
    <2>3. FHeap!Stored(h) = [id \in DOMAIN D |-> h.entries[CHOOSE p \in U : h.keys[p] = id]]
      BY <1>3, <2>1 DEF FHeap!Stored
    <2>4. FHeap!Stored(h) = [id \in DOMAIN D |-> D[id]]
      BY <2>2, <2>3
    <2> QED BY <2>4
  <1>5. FHeap!ProbesEnd(h)
    <2>1. PICK m \in [Filled(h) -> Ids] : Charged(h, m)
      BY DEF TableInv
    <2>2. PICK F : F = Filled(h)
      OBVIOUS
    <2>3. IsFiniteSet(F) /\ Cardinality(F) <= Cardinality(Ids) /\ F \subseteq 0..cap - 1
      BY <2>1, <2>2, FilledCount DEF Filled
    <2>4. IsFiniteSet(0..cap - 1) /\ Cardinality(0..cap - 1) = cap
      <3>1. 0 \in Int /\ cap - 1 \in Int /\ ~(0 > cap - 1) /\ cap - 1 - 0 + 1 = cap
        BY CapIsEnough
      <3> QED BY <3>1, FS_Interval
    <2>5. Cardinality((0..cap - 1) \ F) = Cardinality(0..cap - 1) - Cardinality((0..cap - 1) \cap F)
      BY <2>4, FS_Difference
    <2>6. (0..cap - 1) \cap F = F
      BY <2>3
    <2>7. {p \in FHeap!Table : h.keys[p] = FHeap!kEmpty} = (0..cap - 1) \ F
      BY <2>2, CapIsEnough DEF Filled, FHeap!kEmpty
    <2>8. Cardinality(F) \in Nat
      BY <2>3, FS_CardinalityType
    <2>9. Cardinality((0..cap - 1) \ F) >= cap - Cardinality(Ids)
      <3>1. PICK x, y, z : x = Cardinality((0..cap - 1) \ F) /\ y = Cardinality(F) /\ z = Cardinality(Ids)
        OBVIOUS
      <3>2. x = cap - y /\ y <= z /\ y \in Nat /\ z \in Nat /\ cap \in Nat
        BY <2>3, <2>4, <2>5, <2>6, <2>8, <3>1, CapIsEnough
      <3>3. x >= cap - z
        BY <3>2
      <3> QED BY <3>1, <3>3
    <2>10. Cardinality({p \in FHeap!Table : h.keys[p] = FHeap!kEmpty}) >= cap - Cardinality(Ids)
      BY <2>7, <2>9
    <2> QED BY <2>10, SameCardinality DEF FHeap!ProbesEnd, cap
  <1>6. FHeap!AllFound(h)
    BY <1>2, FoundWhereStored DEF FHeap!AllFound
  <1> QED BY <1>4, <1>5, <1>6

(* ReconcilerFlatHashWheel has the same table as ReconcilerFlatHashHeap.   *)
LEMMA SameCap == FWheel!Cap = FHeap!Cap /\ FWheel!Table = FHeap!Table
  BY DEF FWheel!Cap, FHeap!Cap, FWheel!Table, FHeap!Table

LEMMA SameProbes ==
  /\ \A h, id : FWheel!Stops(h, id) = FHeap!Stops(h, id)
  /\ \A h, id, d : FWheel!Hit(h, id, d) = FHeap!Hit(h, id, d) /\ FWheel!At(h, id, d) = FHeap!At(h, id, d)
  /\ \A S : FWheel!First(S) = FHeap!First(S)
  BY SameCap DEF FWheel!Stops, FHeap!Stops, FWheel!Hit, FHeap!Hit, FWheel!At, FHeap!At,
     FWheel!First, FHeap!First, FWheel!kEmpty, FHeap!kEmpty, FWheel!kTomb, FHeap!kTomb

LEMMA SameTombs == \A h, id : FWheel!Tombs(h, id) = FHeap!Tombs(h, id)
  BY SameCap, SameProbes DEF FWheel!Tombs, FHeap!Tombs, FWheel!kTomb, FHeap!kTomb

LEMMA SameTable ==
  /\ \A h, id : /\ FWheel!findIndex(h, id) = FHeap!findIndex(h, id)
                /\ FWheel!SlotOf(h, id) = FHeap!SlotOf(h, id)
                /\ FWheel!Found(h, id) = FHeap!Found(h, id)
  /\ \A h, id, ent : FWheel!Store(h, id, ent) = FHeap!Store(h, id, ent)
  /\ \A h, S : FWheel!Erase(h, S) = FHeap!Erase(h, S)
  /\ \A h : /\ FWheel!UsedSlots(h) = FHeap!UsedSlots(h) /\ FWheel!Stored(h) = FHeap!Stored(h)
            /\ FWheel!ProbesEnd(h) <=> FHeap!ProbesEnd(h)
            /\ FWheel!AllFound(h) <=> FHeap!AllFound(h)
  /\ \A b : FWheel!EmptyTable(b) = FHeap!EmptyTable(b)
  <1>1. \A h, id : FWheel!findIndex(h, id) = FHeap!findIndex(h, id) /\ FWheel!SlotOf(h, id) = FHeap!SlotOf(h, id)
    BY SameCap, SameProbes, SameTombs
       DEF FWheel!findIndex, FHeap!findIndex, FWheel!SlotOf, FHeap!SlotOf, FWheel!npos, FHeap!npos
  <1>2. \A h, id : FWheel!Found(h, id) = FHeap!Found(h, id)
    BY <1>1, SameCap, FHeapEntry, FWheelEntry DEF FWheel!Found, FHeap!Found, FWheel!npos, FHeap!npos
  <1>3. \A h, id, ent : FWheel!Store(h, id, ent) = FHeap!Store(h, id, ent)
    BY <1>1 DEF FWheel!Store, FHeap!Store
  <1>4. \A h, S : FWheel!Erase(h, S) = FHeap!Erase(h, S)
    BY SameCap, FHeapEntry, FWheelEntry DEF FWheel!Erase, FHeap!Erase, FWheel!kTomb, FHeap!kTomb
  <1>5. \A h : FWheel!UsedSlots(h) = FHeap!UsedSlots(h)
    BY SameCap DEF FWheel!UsedSlots, FHeap!UsedSlots
  <1>6. \A h : FWheel!Stored(h) = FHeap!Stored(h)
    <2> SUFFICES ASSUME NEW h PROVE FWheel!Stored(h) = FHeap!Stored(h)
      OBVIOUS
    <2>1. PICK U : U = FHeap!UsedSlots(h) /\ U = FWheel!UsedSlots(h)
      BY <1>5
    <2> QED BY <2>1 DEF FWheel!Stored, FHeap!Stored
  <1>7. \A h : FWheel!ProbesEnd(h) <=> FHeap!ProbesEnd(h)
    <2> SUFFICES ASSUME NEW h PROVE FWheel!ProbesEnd(h) <=> FHeap!ProbesEnd(h)
      OBVIOUS
    <2>1. {p \in FWheel!Table : h.keys[p] = FWheel!kEmpty} = {p \in FHeap!Table : h.keys[p] = FHeap!kEmpty}
      BY SameCap DEF FWheel!kEmpty, FHeap!kEmpty
    <2> QED BY <2>1, SameCap, SameCardinality DEF FWheel!ProbesEnd, FHeap!ProbesEnd
  <1>8. \A h : FWheel!AllFound(h) <=> FHeap!AllFound(h)
    BY <1>1, <1>5 DEF FWheel!AllFound, FHeap!AllFound, FWheel!kTomb, FHeap!kTomb
  <1>9. \A b : FWheel!EmptyTable(b) = FHeap!EmptyTable(b)
    BY SameCap, FHeapEntry, FWheelEntry DEF FWheel!EmptyTable, FHeap!EmptyTable, FWheel!kEmpty, FHeap!kEmpty
  <1> QED BY <1>1, <1>2, <1>3, <1>4, <1>5, <1>6, <1>7, <1>8, <1>9

FHeapOf(h, D, lt, n) == [table |-> h, expiry |-> Exps(D), last_timer |-> lt, alerts |-> n]
FWheelOf(h, D, lt, n) == [table |-> h, wheel |-> WheelOf(D), last_timer |-> lt, alerts |-> n]
(* What a timer is to erase.                                               *)
LEMMA SlotsDue ==
  ASSUME NEW h, NEW D, NEW lt \in Nat, NEW t \in Nat, TableInv(h, D), Dated(D, lt)
  PROVE  /\ FHeap!UsedSlots(h) = {p \in 0..cap - 1 : h.keys[p] \in Ids}
         /\ \A p \in FHeap!UsedSlots(h) :
              /\ h.keys[p] \in DOMAIN D /\ h.entries[p] = D[h.keys[p]]
              /\ expireAt(h.entries[p]) <= t <=> h.keys[p] \notin DOMAIN Kept(D, t)
  <1>1. TableShape(h) /\ Holds(h, D)
    BY DEF TableInv
  <1>2. FHeap!UsedSlots(h) = {p \in 0..cap - 1 : h.keys[p] \in Ids}
    BY <1>1, CapIsEnough DEF TableShape, FHeap!UsedSlots
  <1>3. ASSUME NEW p \in FHeap!UsedSlots(h)
        PROVE  /\ h.keys[p] \in DOMAIN D /\ h.entries[p] = D[h.keys[p]]
               /\ expireAt(h.entries[p]) <= t <=> h.keys[p] \notin DOMAIN Kept(D, t)
    <2>1. h.keys[p] \in DOMAIN D /\ h.entries[p] = D[h.keys[p]]
      BY <1>1, <1>2, <1>3 DEF Holds
    <2>2. PICK id \in DOMAIN D : id = h.keys[p]
      BY <2>1
    <2>3. expireAt(D[id]) \in Nat
      BY WindowAssumption DEF Dated, Entry, expireAt
    <2>4. id \in DOMAIN Kept(D, t) <=> t < expireAt(D[id])
      BY DEF Kept
    <2> QED BY <2>1, <2>2, <2>3, <2>4
  <1> QED BY <1>2, <1>3

LEMMA KeptPart ==
  ASSUME NEW D, NEW t
  PROVE  DOMAIN Kept(D, t) \subseteq DOMAIN D /\ \A id \in DOMAIN Kept(D, t) : Kept(D, t)[id] = D[id]
  BY DEF Kept

LEMMA FHeapTimer ==
  ASSUME NEW h, NEW D, NEW lt \in Nat, NEW n, NEW t \in Nat, TableInv(h, D), Dated(D, lt), 1 \notin Ids
  PROVE  \E g : /\ FHeap!onTimer(FHeapOf(h, D, lt, n), t) = FHeapOf(g, Kept(D, t), t, n)
                /\ TableInv(g, Kept(D, t))
  <1> DEFINE s == FHeapOf(h, D, lt, n)
  <1>1. s.table = h /\ s.expiry = Exps(D) /\ s.last_timer = lt /\ s.alerts = n
    BY DEF FHeapOf
  <1>2. PICK P : P = FHeap!Popped(s, t)
    OBVIOUS
  <1>3. P = {x \in Exps(D) : x.expire_at <= t}
    BY <1>1, <1>2 DEF FHeap!Popped
  <1>4. PICK V : V = FHeap!Victims(s, t)
    OBVIOUS
  <1>5. V = {p \in 0..cap - 1 : h.keys[p] \in Ids /\ h.keys[p] \notin DOMAIN Kept(D, t)}
    <2>1. V = {p \in FHeap!UsedSlots(h) :
                 \E x \in P : FHeap!findIndex(h, x.id) = p /\ expireAt(h.entries[p]) = x.expire_at}
      <3> HIDE DEF s
      <3> QED BY <1>1, <1>2, <1>4, FHeapEntry DEF FHeap!Victims
    <2>2. ASSUME NEW p \in FHeap!UsedSlots(h)
          PROVE  (\E x \in P : FHeap!findIndex(h, x.id) = p /\ expireAt(h.entries[p]) = x.expire_at)
                   <=> h.keys[p] \notin DOMAIN Kept(D, t)
      <3>1. /\ p \in 0..cap - 1 /\ h.keys[p] \in Ids /\ h.keys[p] \in DOMAIN D
            /\ h.entries[p] = D[h.keys[p]]
            /\ expireAt(h.entries[p]) <= t <=> h.keys[p] \notin DOMAIN Kept(D, t)
        BY <2>2, SlotsDue
      <3>2. ASSUME NEW x \in P, expireAt(h.entries[p]) = x.expire_at
            PROVE  h.keys[p] \notin DOMAIN Kept(D, t)
        BY <1>3, <3>1, <3>2
      <3>3. ASSUME h.keys[p] \notin DOMAIN Kept(D, t)
            PROVE  \E x \in P : FHeap!findIndex(h, x.id) = p /\ expireAt(h.entries[p]) = x.expire_at
        <4>1. PICK x : x = Exp(D[h.keys[p]], h.keys[p])
          OBVIOUS
        <4>2. x.expire_at = expireAt(h.entries[p]) /\ x.id = h.keys[p]
          BY <3>1, <4>1, ExpFields
        <4>3. x \in Exps(D)
          BY <3>1, <4>1 DEF Exps
        <4>4. x \in P
          BY <1>3, <3>1, <3>3, <4>2, <4>3
        <4>5. FHeap!findIndex(h, h.keys[p]) = p
          BY <3>1, FoundWhereStored
        <4> QED BY <4>2, <4>4, <4>5
      <3> QED BY <3>2, <3>3
    <2> QED BY <2>1, <2>2, SlotsDue
  <1>6. PICK g, X : g = FHeap!Erase(h, V) /\ X = Exps(D) \ P
    OBVIOUS
  <1>7. FHeap!onTimer(s, t) = [s EXCEPT !.last_timer = t, !.expiry = X, !.table = g]
    <2> HIDE DEF s
    <2> QED BY <1>1, <1>2, <1>4, <1>6 DEF FHeap!onTimer
  <1>8. X = Exps(Kept(D, t))
    BY <1>3, <1>6, ExpsKept
  <1>9. FHeap!onTimer(s, t) = FHeapOf(g, Kept(D, t), t, n)
    BY <1>7, <1>8 DEF FHeapOf
  <1>10. TableInv(g, Kept(D, t))
    <2>1. PICK K : K = Kept(D, t)
      OBVIOUS
    <2>2. DOMAIN K \subseteq DOMAIN D /\ \A id \in DOMAIN K : K[id] = D[id]
      BY <2>1, KeptPart
    <2>3. TableInv(FHeap!Erase(h, V), K)
      BY <1>5, <2>1, <2>2, EraseKeepsTable
    <2> QED BY <1>6, <2>1, <2>3
  <1> QED BY <1>9, <1>10

LEMMA FHeapFeed ==
  ASSUME NEW h, NEW D, NEW lt \in Nat, NEW n, NEW e \in Timed, TableInv(h, D), Dated(D, lt), 1 \notin Ids
  PROVE  IF TooLate(e, lt) THEN FHeap!onFeed(FHeapOf(h, D, lt, n), e) = FHeapOf(h, D, lt, n)
         ELSE \E g : /\ FHeap!onFeed(FHeapOf(h, D, lt, n), e)
                          = FHeapOf(g, Put(D, e), lt, n + Raised(Old(D, e.id), e))
                     /\ TableInv(g, Put(D, e))
  <1> DEFINE s == FHeapOf(h, D, lt, n)
  <1>1. s.table = h /\ s.expiry = Exps(D) /\ s.last_timer = lt /\ s.alerts = n
    BY DEF FHeapOf
  <1>2. PICK u : u = Updated(Old(D, e.id), e)
    OBVIOUS
  <1>3. PICK g, X : g = FHeap!Store(h, e.id, u) /\ X = Exps(D) \cup {Exp(u, e.id)}
    OBVIOUS
  <1>4. PICK r : r = n + Raised(Old(D, e.id), e)
    OBVIOUS
  <1>5. FHeap!Found(h, e.id) = Old(D, e.id) /\ TableInv(g, Put(D, e))
    <2>1. DOMAIN D \subseteq Ids
      BY DEF Dated
    <2> QED BY <1>2, <1>3, <2>1, StoreKeepsTable
  <1>6. CASE ~TooLate(e, lt)
    <2>1. FHeap!onFeed(s, e) = [s EXCEPT !.table = g, !.expiry = X, !.alerts = r]
      <3> HIDE DEF s
      <3> QED BY <1>1, <1>2, <1>3, <1>4, <1>5, <1>6, FHeapEntry DEF FHeap!onFeed
    <2>2. X = Exps(Put(D, e))
      BY <1>2, <1>3, ExpsPut
    <2>3. FHeap!onFeed(s, e) = FHeapOf(g, Put(D, e), lt, r)
      BY <2>1, <2>2 DEF FHeapOf
    <2> QED BY <1>4, <1>5, <1>6, <2>3
  <1>7. CASE TooLate(e, lt)
    <2>1. FHeap!onFeed(s, e) = s
      <3> HIDE DEF s
      <3> QED BY <1>1, <1>7, FHeapEntry DEF FHeap!onFeed
    <2> QED BY <1>7, <2>1
  <1> QED BY <1>6, <1>7

LEMMA FWheelTimer ==
  ASSUME NEW h, NEW D, NEW lt \in Nat, NEW n, TableInv(h, D), Dated(D, lt), 1 \notin Ids
  PROVE  \E g : /\ FWheel!onTimer(FWheelOf(h, D, lt, n), lt + Window)
                     = FWheelOf(g, Kept(D, lt + Window), lt + Window, n)
                /\ TableInv(g, Kept(D, lt + Window))
  <1> DEFINE s == FWheelOf(h, D, lt, n)
  <1>1. s.table = h /\ s.wheel = WheelOf(D) /\ s.last_timer = lt /\ s.alerts = n
    BY DEF FWheelOf
  <1>t. PICK t : t = lt + Window
    OBVIOUS
  <1>2. FWheel!Ticks(s, t) = Passed(lt, t) /\ Passed(lt, t) \subseteq Nat /\ t \in Nat
    BY <1>1, <1>t, WindowAssumption DEF FWheel!Ticks, Passed
  <1>3. PICK V : V = FWheel!Victims(s, t)
    OBVIOUS
  <1>4. V = {p \in 0..cap - 1 : h.keys[p] \in Ids /\ h.keys[p] \notin DOMAIN Kept(D, t)}
    <2>1. V = {p \in FHeap!UsedSlots(h) :
                 \E u \in Passed(lt, t) :
                   /\ \A w \in Passed(lt, t) : w % tick_mod = u % tick_mod => u <= w
                   /\ \E id \in s.wheel[u % tick_mod] : FHeap!findIndex(h, id) = p
                   /\ expireAt(h.entries[p]) <= u}
      <3> HIDE DEF s
      <3> QED BY <1>1, <1>2, <1>3, FWheelEntry, SameTable DEF FWheel!Victims, FWheel!FirstTick
    <2>2. \A u \in Passed(lt, t) : s.wheel[u % tick_mod] = DueOf(D, u % tick_mod)
      BY <1>1, <1>2, BucketRange DEF WheelOf
    <2>3. ASSUME NEW p \in FHeap!UsedSlots(h)
          PROVE  p \in V <=> h.keys[p] \notin DOMAIN Kept(D, t)
      <3>1. /\ p \in 0..cap - 1 /\ h.keys[p] \in Ids /\ h.keys[p] \in DOMAIN D
            /\ h.entries[p] = D[h.keys[p]]
            /\ expireAt(h.entries[p]) <= t <=> h.keys[p] \notin DOMAIN Kept(D, t)
        BY <1>2, <2>3, SlotsDue
      <3>2. PICK id \in DOMAIN D : id = h.keys[p]
        BY <3>1
      <3>3. ASSUME NEW b
            PROVE  (\E x \in DueOf(D, b) : FHeap!findIndex(h, x) = p) <=> id \in DueOf(D, b)
        <4>1. FHeap!findIndex(h, id) = p
          BY <3>1, <3>2, FoundWhereStored
        <4>2. ASSUME NEW x \in DueOf(D, b), FHeap!findIndex(h, x) = p
              PROVE  x = id
          <5>1. x \in DOMAIN D /\ x \in Ids
            BY <4>2 DEF DueOf, Dated
          <5>2. h.keys[FHeap!findIndex(h, x)] = x
            BY <5>1, FoundWhereStored
          <5> QED BY <3>2, <4>2, <5>2
        <4> QED BY <4>1, <4>2
      <3>4. p \in V <=> \E u \in Passed(lt, t) :
                          /\ \A w \in Passed(lt, t) : w % tick_mod = u % tick_mod => u <= w
                          /\ id \in DueOf(D, u % tick_mod)
                          /\ expireAt(D[id]) <= u
        <4> HIDE DEF s
        <4> QED BY <2>1, <2>2, <2>3, <3>1, <3>2, <3>3
      <3>5. p \in V <=> expireAt(D[id]) <= t
        BY <1>t, <3>4, WheelDue
      <3> QED BY <3>1, <3>2, <3>5
    <2> QED BY <1>2, <2>1, <2>3, SlotsDue
  <1>5. PICK g, W : g = FHeap!Erase(h, V) /\ W = WheelOf(Kept(D, t))
    OBVIOUS
  <1>6. FWheel!onTimer(s, t) = [s EXCEPT !.table = g, !.wheel = W, !.last_timer = t]
    <2>1. [b \in FWheel!Buckets |->
             IF \E u \in FWheel!Ticks(s, t) : u % tick_mod = b THEN {} ELSE s.wheel[b]] = W
      <3>1. FWheel!Buckets = 0..tick_mod - 1
        BY DEF FWheel!Buckets
      <3>2. \A b \in 0..tick_mod - 1 : s.wheel[b] = DueOf(D, b)
        BY <1>1 DEF WheelOf
      <3>3. \A b : (IF \E u \in Passed(lt, t) : u % tick_mod = b THEN {} ELSE DueOf(D, b))
                     = DueOf(Kept(D, t), b)
        BY <1>t, WheelKept
      <3> QED BY <1>2, <1>5, <3>1, <3>2, <3>3 DEF WheelOf
    <2>2. FWheel!Erase(s.table, FWheel!Victims(s, t)) = g
      BY <1>1, <1>3, <1>5, SameTable
    <2> HIDE DEF s
    <2> QED BY <2>1, <2>2 DEF FWheel!onTimer
  <1>7. FWheel!onTimer(s, t) = FWheelOf(g, Kept(D, t), t, n)
    BY <1>5, <1>6 DEF FWheelOf
  <1>8. TableInv(g, Kept(D, t))
    <2>1. PICK K : K = Kept(D, t)
      OBVIOUS
    <2>2. DOMAIN K \subseteq DOMAIN D /\ \A id \in DOMAIN K : K[id] = D[id]
      BY <2>1, KeptPart
    <2>3. TableInv(FHeap!Erase(h, V), K)
      BY <1>4, <2>1, <2>2, EraseKeepsTable
    <2> QED BY <1>5, <2>1, <2>3
  <1> QED BY <1>t, <1>7, <1>8

LEMMA FWheelFeed ==
  ASSUME NEW h, NEW D, NEW lt \in Nat, NEW n, NEW e \in Timed, TableInv(h, D), Dated(D, lt), 1 \notin Ids
  PROVE  IF TooLate(e, lt) THEN FWheel!onFeed(FWheelOf(h, D, lt, n), e) = FWheelOf(h, D, lt, n)
         ELSE \E g : /\ FWheel!onFeed(FWheelOf(h, D, lt, n), e)
                          = FWheelOf(g, Put(D, e), lt, n + Raised(Old(D, e.id), e))
                     /\ TableInv(g, Put(D, e))
  <1> DEFINE s == FWheelOf(h, D, lt, n)
  <1>1. s.table = h /\ s.wheel = WheelOf(D) /\ s.last_timer = lt /\ s.alerts = n
    BY DEF FWheelOf
  <1>2. PICK u : u = Updated(Old(D, e.id), e)
    OBVIOUS
  <1>3. PICK g, W : g = FHeap!Store(h, e.id, u) /\ W = WheelOf(Put(D, e))
    OBVIOUS
  <1>4. PICK r : r = n + Raised(Old(D, e.id), e)
    OBVIOUS
  <1>5. FHeap!Found(h, e.id) = Old(D, e.id) /\ TableInv(g, Put(D, e))
    <2>1. DOMAIN D \subseteq Ids
      BY DEF Dated
    <2> QED BY <1>2, <1>3, <2>1, StoreKeepsTable
  <1>6. FWheel!schedule(s, e, u) = W
    <2>1. Old(D, e.id).first_ts # 0 <=> e.id \in DOMAIN D
      BY BlankEntry DEF Old, Dated
    <2>2. FWheel!Found(s.table, e.id) = Old(D, e.id)
      BY <1>1, <1>5, SameTable
    <2> HIDE DEF s
    <2> QED BY <1>1, <1>2, <1>3, <2>1, <2>2, WheelPut, FWheelEntry DEF FWheel!schedule
  <1>7. CASE ~TooLate(e, lt)
    <2>1. FWheel!onFeed(s, e) = [s EXCEPT !.table = g, !.wheel = W, !.alerts = r]
      <3>1. FWheel!Found(s.table, e.id) = Old(D, e.id) /\ FWheel!Store(s.table, e.id, u) = g
        BY <1>1, <1>3, <1>5, SameTable
      <3> HIDE DEF s
      <3> QED BY <1>1, <1>2, <1>4, <1>6, <1>7, <3>1, FWheelEntry DEF FWheel!onFeed
    <2>2. FWheel!onFeed(s, e) = FWheelOf(g, Put(D, e), lt, r)
      BY <1>3, <2>1 DEF FWheelOf
    <2> QED BY <1>4, <1>5, <1>7, <2>2
  <1>8. CASE TooLate(e, lt)
    <2>1. FWheel!onFeed(s, e) = s
      <3> HIDE DEF s
      <3> QED BY <1>1, <1>8, FWheelEntry DEF FWheel!onFeed
    <2> QED BY <1>8, <2>1
  <1> QED BY <1>7, <1>8

ClassesInv ==
  /\ uheap = UHeapOf(by_id, last_timer, scan.alerts)
  /\ dheap = DHeapOf(by_id, last_timer, scan.alerts)
  /\ dwheel = DWheelOf(by_id, last_timer, scan.alerts)
  /\ fheap = FHeapOf(fheap.table, by_id, last_timer, scan.alerts)
  /\ fwheel = FWheelOf(fwheel.table, by_id, last_timer, scan.alerts)
  /\ TableInv(fheap.table, by_id) /\ TableInv(fwheel.table, by_id)

(* The tables start with no slot filled.                                   *)
LEMMA TableAtFirst ==
  ASSUME NEW h \in Hashes, NEW D, DOMAIN D = {}
  PROVE  TableInv(FHeap!EmptyTable(h), D) /\ FHeap!EmptyTable(h) = FWheel!EmptyTable(h)
  <1> DEFINE g == FHeap!EmptyTable(h)
  <1>1. FHeap!Table = 0..cap - 1 /\ h \in [Ids -> 0..cap - 1]
    BY CapIsEnough, HashAssumption
  <1>2. g = [keys |-> [p \in 0..cap - 1 |-> 0], used |-> [p \in 0..cap - 1 |-> FALSE],
             entries |-> [p \in 0..cap - 1 |-> FHeap!Blank], probe |-> h]
    BY <1>1 DEF FHeap!EmptyTable, FHeap!kEmpty
  <1>3. /\ g.keys = [p \in 0..cap - 1 |-> 0] /\ g.used = [p \in 0..cap - 1 |-> FALSE]
        /\ g.entries = [p \in 0..cap - 1 |-> FHeap!Blank] /\ g.probe = h
    BY <1>2
  <1>4. 0 \notin Ids
    BY IdsAssumption
  <1>5. g = [keys |-> g.keys, used |-> g.used, entries |-> g.entries, probe |-> g.probe]
    BY <1>2
  <1> HIDE DEF g
  <1>6. TableShape(g)
    BY <1>1, <1>3, <1>4, <1>5 DEF TableShape
  <1>7. Filled(g) = {}
    BY <1>3 DEF Filled
  <1>8. \E m \in [Filled(g) -> Ids] : Charged(g, m)
    <2>1. [p \in {} |-> p] \in [Filled(g) -> Ids]
      BY <1>7
    <2>2. Charged(g, [p \in {} |-> p])
      BY <1>7 DEF Charged
    <2> QED BY <2>1, <2>2
  <1>9. Holds(g, D)
    BY <1>3, <1>4 DEF Holds
  <1>10. TableInv(g, D)
    BY <1>6, <1>8, <1>9 DEF TableInv
  <1> QED BY <1>10, SameTable DEF g

LEMMA ClassesInit == Init => ClassesInv
  <1> SUFFICES ASSUME Init PROVE ClassesInv
    OBVIOUS
  <1>1. PICK D : D = [id \in {} |-> Blank]
    OBVIOUS
  <1>2. by_id = D /\ last_timer = 0 /\ scan.alerts = 0
    BY <1>1, ScanEntry DEF Init, Scan!New, by_id, last_timer
  <1>3. DOMAIN D = {} /\ Exps(D) = {} /\ \A id : Old(D, id) = Blank
    BY <1>1 DEF Exps, Old
  <1>4. uheap = UHeapOf(D, 0, 0)
    BY <1>1, <1>3, UHeapEntry DEF Init, UHeap!New, UHeapOf
  <1>o. /\ [id \in 0..max_id |-> Old(D, id)] = [id \in 0..max_id |-> Blank]
        /\ [id \in 0..max_id |-> id \in DOMAIN D] = [id \in 0..max_id |-> FALSE]
    <2>1. \A id : (id \in DOMAIN D) = FALSE
      <3> SUFFICES ASSUME NEW id PROVE (id \in DOMAIN D) = FALSE
        OBVIOUS
      <3>1. DOMAIN D = {}
        BY <1>3
      <3>2. (id \in {}) = FALSE
        BY Z3
      <3> QED BY <3>1, <3>2
    <2> QED BY <1>3, <2>1, Zenon
  <1>5. dheap = DHeapOf(D, 0, 0)
    <2>1. DHeap!EmptyBag = SetToBag({})
      BY DHeapBags DEF SetToBag
    <2>2. DHeapOf(D, 0, 0) = [entries |-> [id \in 0..max_id |-> Blank],
                              active |-> [id \in 0..max_id |-> FALSE],
                              expiry |-> DHeap!EmptyBag, last_timer |-> 0, alerts |-> 0]
      BY <1>3, <1>o, <2>1, Zenon DEF DHeapOf
    <2> QED BY <2>2, DHeapEntry, Zenon DEF Init, DHeap!New
  <1>6. WheelOf(D) = [b \in 0..tick_mod - 1 |-> {}]
    BY <1>3 DEF WheelOf, DueOf
  <1>7. dwheel = DWheelOf(D, 0, 0)
    <2>1. DWheelOf(D, 0, 0) = [entries |-> [id \in 0..max_id |-> Blank],
                               active |-> [id \in 0..max_id |-> FALSE],
                               wheel |-> WheelOf(D), last_timer |-> 0, alerts |-> 0]
      BY <1>o, Zenon DEF DWheelOf
    <2>2. DWheel!New = [entries |-> [id \in 0..max_id |-> Blank],
                        active |-> [id \in 0..max_id |-> FALSE],
                        wheel |-> WheelOf(D), last_timer |-> 0, alerts |-> 0]
      BY <1>6, DWheelEntry, Zenon DEF DWheel!New, DWheel!Buckets
    <2> QED BY <2>1, <2>2, Zenon DEF Init
  <1>8. PICK h \in Hashes : fheap = FHeap!New(h) /\ fwheel = FWheel!New(h)
    BY DEF Init
  <1>9. PICK g : g = FHeap!EmptyTable(h)
    OBVIOUS
  <1>10. TableInv(g, D) /\ g = FWheel!EmptyTable(h)
    BY <1>3, <1>9, TableAtFirst
  <1>11. fheap = FHeapOf(g, D, 0, 0)
    BY <1>3, <1>8, <1>9 DEF FHeap!New, FHeapOf
  <1>12. fwheel = FWheelOf(g, D, 0, 0)
    BY <1>6, <1>8, <1>10 DEF FWheel!New, FWheel!Buckets, FWheelOf
  <1>13. fheap.table = g /\ fwheel.table = g
    BY <1>11, <1>12 DEF FHeapOf, FWheelOf
  <1> QED BY <1>2, <1>4, <1>5, <1>7, <1>10, <1>11, <1>12, <1>13 DEF ClassesInv

LEMMA ClassesTimer ==
  ASSUME ScanInv, ClassesInv, onTimer(next_timer), 1 \notin Ids
  PROVE  ClassesInv'
  <1>1. PICK D, lt, n, t, h, g : /\ D = by_id /\ lt = last_timer /\ n = scan.alerts /\ t = next_timer
                                 /\ h = fheap.table /\ g = fwheel.table
    OBVIOUS
  <1>2. lt \in Nat /\ t \in Nat /\ t = lt + Window /\ Dated(D, lt)
    BY <1>1, WindowAssumption DEF ScanInv
  <1>3. by_id' = Kept(D, t) /\ last_timer' = t /\ scan'.alerts = n
    BY <1>1, ScanTimer
  <1>4. uheap' = UHeapOf(Kept(D, t), t, n)
    BY <1>1, <1>2, UHeapTimer DEF ClassesInv, onTimer
  <1>5. dheap' = DHeapOf(Kept(D, t), t, n)
    BY <1>1, <1>2, DHeapTimer DEF ClassesInv, onTimer
  <1>6. dwheel' = DWheelOf(Kept(D, t), t, n)
    BY <1>1, <1>2, DWheelTimer DEF ClassesInv, onTimer
  <1>7. PICK x : fheap' = FHeapOf(x, Kept(D, t), t, n) /\ TableInv(x, Kept(D, t))
    <2>1. TableInv(h, D) /\ fheap = FHeapOf(h, D, lt, n) /\ fheap' = FHeap!onTimer(fheap, t)
      BY <1>1 DEF ClassesInv, onTimer
    <2> QED BY <1>2, <2>1, FHeapTimer
  <1>8. PICK y : fwheel' = FWheelOf(y, Kept(D, t), t, n) /\ TableInv(y, Kept(D, t))
    <2>1. TableInv(g, D) /\ fwheel = FWheelOf(g, D, lt, n) /\ fwheel' = FWheel!onTimer(fwheel, t)
      BY <1>1 DEF ClassesInv, onTimer
    <2> QED BY <1>2, <2>1, FWheelTimer
  <1>9. fheap'.table = x /\ fwheel'.table = y
    BY <1>7, <1>8 DEF FHeapOf, FWheelOf
  <1> QED BY <1>3, <1>4, <1>5, <1>6, <1>7, <1>8, <1>9 DEF ClassesInv

LEMMA ClassesFeed ==
  ASSUME ScanInv, ClassesInv, onFeed(ev), ev # NoEvent, 1 \notin Ids
  PROVE  ClassesInv'
  <1>1. PICK D, lt, n, e, h, g : /\ D = by_id /\ lt = last_timer /\ n = scan.alerts /\ e = ev
                                 /\ h = fheap.table /\ g = fwheel.table
    OBVIOUS
  <1>2. lt \in Nat /\ e \in Timed /\ Dated(D, lt)
    BY <1>1, EventsTimed DEF ScanInv
  <1>3. /\ uheap = UHeapOf(D, lt, n) /\ dheap = DHeapOf(D, lt, n) /\ dwheel = DWheelOf(D, lt, n)
        /\ fheap = FHeapOf(h, D, lt, n) /\ fwheel = FWheelOf(g, D, lt, n)
        /\ TableInv(h, D) /\ TableInv(g, D)
    BY <1>1 DEF ClassesInv
  <1>4. /\ uheap' = UHeap!onFeed(uheap, e) /\ dheap' = DHeap!onFeed(dheap, e)
        /\ dwheel' = DWheel!onFeed(dwheel, e)
        /\ fheap' = FHeap!onFeed(fheap, e) /\ fwheel' = FWheel!onFeed(fwheel, e)
    BY <1>1 DEF onFeed
  <1>5. CASE TooLate(e, lt)
    <2>1. UNCHANGED <<scan, by_id, last_timer>>
      BY <1>1, <1>5, ScanFeed DEF by_id, last_timer
    <2>2. uheap' = uheap /\ dheap' = dheap /\ dwheel' = dwheel
      BY <1>2, <1>3, <1>4, <1>5, UHeapFeed, DHeapFeed, DWheelFeed
    <2>3. fheap' = fheap
      BY <1>2, <1>3, <1>4, <1>5, FHeapFeed
    <2>4. fwheel' = fwheel
      BY <1>2, <1>3, <1>4, <1>5, FWheelFeed
    <2> QED BY <2>1, <2>2, <2>3, <2>4 DEF ClassesInv
  <1>6. CASE ~TooLate(e, lt)
    <2>1. PICK P, r : P = Put(D, e) /\ r = n + Raised(Old(D, e.id), e)
      OBVIOUS
    <2>2. by_id' = P /\ last_timer' = lt /\ scan'.alerts = r
      BY <1>1, <1>6, <2>1, ScanFeed
    <2>3. uheap' = UHeapOf(P, lt, r)
      BY <1>2, <1>3, <1>4, <1>6, <2>1, UHeapFeed
    <2>4. dheap' = DHeapOf(P, lt, r)
      BY <1>2, <1>3, <1>4, <1>6, <2>1, DHeapFeed
    <2>5. dwheel' = DWheelOf(P, lt, r)
      BY <1>2, <1>3, <1>4, <1>6, <2>1, DWheelFeed
    <2>6. PICK x : fheap' = FHeapOf(x, P, lt, r) /\ TableInv(x, P)
      BY <1>2, <1>3, <1>4, <1>6, <2>1, FHeapFeed
    <2>7. PICK y : fwheel' = FWheelOf(y, P, lt, r) /\ TableInv(y, P)
      BY <1>2, <1>3, <1>4, <1>6, <2>1, FWheelFeed
    <2>8. fheap'.table = x /\ fwheel'.table = y
      BY <2>6, <2>7 DEF FHeapOf, FWheelOf
    <2> QED BY <2>2, <2>3, <2>4, <2>5, <2>6, <2>7, <2>8 DEF ClassesInv
  <1> QED BY <1>5, <1>6

LEMMA ClassesStep ==
  ASSUME ScanInv, ClassesInv, [Next]_vars, 1 \notin Ids
  PROVE  ClassesInv'
  <1>1. ASSUME UNCHANGED classes
        PROVE  ClassesInv'
    <2>1. UNCHANGED <<scan, by_id, last_timer, uheap, dheap, dwheel, fheap, fwheel>>
      BY <1>1 DEF classes, by_id, last_timer
    <2> QED BY <2>1 DEF ClassesInv
  <1>2. ASSUME NEW e \in Events, Arrive(e)
        PROVE  ClassesInv'
    BY <1>1, <1>2 DEF Arrive
  <1>3. CASE TimerDue
    BY <1>3, ClassesTimer DEF TimerDue
  <1>4. CASE Deliver
    BY <1>4, ClassesFeed DEF Deliver
  <1>5. CASE EndOfFeed
    BY <1>1, <1>5 DEF EndOfFeed
  <1>6. CASE FlushDue
    BY <1>6, ClassesTimer DEF FlushDue
  <1>7. CASE UNCHANGED vars
    BY <1>1, <1>7 DEF vars
  <1> QED BY <1>2, <1>3, <1>4, <1>5, <1>6, <1>7 DEF Next

(* The two flat classes need ids other than 1, the key of an erased slot;  *)
(* main draws its ids from 1 to 2^64-1 and does not look.                  *)
THEOREM ClassesInvariance == ASSUME 1 \notin Ids PROVE Spec => [](ScanInv /\ ClassesInv)
  <1>1. Init => ScanInv /\ ClassesInv
    BY ScanInit, ClassesInit
  <1>2. (ScanInv /\ ClassesInv) /\ [Next]_vars => (ScanInv /\ ClassesInv)'
    <2> SUFFICES ASSUME ScanInv, ClassesInv, [Next]_vars PROVE (ScanInv /\ ClassesInv)'
      OBVIOUS
    <2>1. ScanInv'
      BY ScanStep
    <2>2. ClassesInv'
      BY ClassesStep
    <2> QED BY <2>1, <2>2
  <1> QED BY <1>1, <1>2, PTL DEF Spec

(* ClassesAgree: the same calls leave every class with the entries and the *)
(* alerts of the scan, for any workload, wheel length of two windows or    *)
(* more and hash function.                                                 *)
THEOREM EveryClassFollowsTheScan == ASSUME 1 \notin Ids PROVE Spec => []ClassesAgree
  <1>1. ASSUME ScanInv, ClassesInv
        PROVE  ClassesAgree
    <2>1. PICK D, lt, n, h, g : /\ D = by_id /\ lt = last_timer /\ n = scan.alerts
                                /\ h = fheap.table /\ g = fwheel.table
      OBVIOUS
    <2>2. /\ uheap = UHeapOf(D, lt, n) /\ dheap = DHeapOf(D, lt, n) /\ dwheel = DWheelOf(D, lt, n)
          /\ fheap = FHeapOf(h, D, lt, n) /\ fwheel = FWheelOf(g, D, lt, n)
          /\ TableInv(h, D) /\ TableInv(g, D)
      BY <1>1, <2>1 DEF ClassesInv
    <2>3. /\ D = [id \in DOMAIN D |-> D[id]] /\ DOMAIN D \subseteq Ids /\ DOMAIN D \subseteq 0..max_id
          /\ \A id \in DOMAIN D : Old(D, id) = D[id]
      <3>1. Dated(D, lt)
        BY <1>1, <2>1 DEF ScanInv
      <3> QED BY <3>1, Indexed DEF Dated
    <2>4. uheap.alerts = n /\ UHeap!Contents(uheap) = D
      BY <2>2 DEF UHeapOf, UHeap!Contents
    <2>5. [id \in {x \in 0..max_id : x \in DOMAIN D} |-> Old(D, id)] = D
      BY <2>3
    <2>6. dheap.alerts = n /\ DHeap!Contents(dheap) = D
      <3>1. /\ dheap.active = [id \in 0..max_id |-> id \in DOMAIN D]
            /\ dheap.entries = [id \in 0..max_id |-> Old(D, id)] /\ dheap.alerts = n
        BY <2>2, Zenon DEF DHeapOf
      <3>2. DHeap!ActiveIds(dheap) = {x \in 0..max_id : x \in DOMAIN D}
        BY <3>1, Zenon DEF DHeap!ActiveIds
      <3> QED BY <2>5, <3>1, <3>2 DEF DHeap!Contents
    <2>7. dwheel.alerts = n /\ DWheel!Contents(dwheel) = D
      <3>1. /\ dwheel.active = [id \in 0..max_id |-> id \in DOMAIN D]
            /\ dwheel.entries = [id \in 0..max_id |-> Old(D, id)] /\ dwheel.alerts = n
        BY <2>2, Zenon DEF DWheelOf
      <3>2. DWheel!ActiveIds(dwheel) = {x \in 0..max_id : x \in DOMAIN D}
        BY <3>1, Zenon DEF DWheel!ActiveIds
      <3> QED BY <2>5, <3>1, <3>2 DEF DWheel!Contents
    <2>8. fheap.alerts = n /\ FHeap!Contents(fheap) = D
      <3>1. fheap.table = h /\ fheap.alerts = n
        BY <2>2 DEF FHeapOf
      <3> QED BY <2>2, <2>3, <3>1, TableShows DEF FHeap!Contents
    <2>9. fwheel.alerts = n /\ FWheel!Contents(fwheel) = D
      <3>1. fwheel.table = g /\ fwheel.alerts = n
        BY <2>2 DEF FWheelOf
      <3> QED BY <2>2, <2>3, <3>1, TableShows, SameTable DEF FWheel!Contents
    <2>10. <<uheap.alerts, dheap.alerts, dwheel.alerts, fheap.alerts, fwheel.alerts>> = [k \in 1..5 |-> n]
      BY <2>4, <2>6, <2>7, <2>8, <2>9
    <2> QED BY <2>1, <2>4, <2>6, <2>7, <2>8, <2>9, <2>10 DEF ClassesAgree
  <1>2. ScanInv /\ ClassesInv => ClassesAgree
    BY <1>1
  <1> QED BY <1>2, ClassesInvariance, PTL

(* ExpiryCoversEntries: a heap holds one element for each entry and none   *)
(* for an entry that is gone; a bucket of a wheel holds the entries that   *)
(* expire in it and no one else.                                           *)
THEOREM ExpiryIsExact == ASSUME 1 \notin Ids PROVE Spec => []ExpiryCoversEntries
  <1>1. ASSUME ClassesInv
        PROVE  ExpiryCoversEntries
    <2>1. PICK D, lt, n, h, g : /\ D = by_id /\ lt = last_timer /\ n = scan.alerts
                                /\ h = fheap.table /\ g = fwheel.table
      OBVIOUS
    <2>2. Expirations = Exps(D) /\ \A b : DueIn(b) = DueOf(D, b)
      BY <2>1 DEF Expirations, Exps, DueIn, DueOf
    <2>3. uheap.expiry = Exps(D) /\ dheap.expiry = SetToBag(Exps(D))
      BY <1>1, <2>1 DEF ClassesInv, UHeapOf, DHeapOf
    <2>4. dwheel.wheel = WheelOf(D) /\ fwheel.wheel = WheelOf(D)
      BY <1>1, <2>1 DEF ClassesInv, DWheelOf, FWheelOf
    <2>5. \A b \in DWheel!Buckets : WheelOf(D)[b] = DueOf(D, b)
      BY DEF WheelOf, DWheel!Buckets
    <2> QED BY <2>2, <2>3, <2>4, <2>5 DEF ExpiryCoversEntries
  <1>2. ClassesInv => ExpiryCoversEntries
    BY <1>1
  <1> QED BY <1>2, ClassesInvariance, PTL

(* TablesSearchable: erased slots take the place of empty ones for good,   *)
(* but each is charged to an id of its own, so that no more than the      *)
(* expected_ids, half of the slots, are ever filled.                       *)
THEOREM LookUpsEnd == ASSUME 1 \notin Ids PROVE Spec => []TablesSearchable
  <1>1. ASSUME ScanInv, ClassesInv
        PROVE  TablesSearchable
    <2>1. PICK D, h, g : D = by_id /\ h = fheap.table /\ g = fwheel.table
      OBVIOUS
    <2>2. TableInv(h, D) /\ TableInv(g, D) /\ D = [id \in DOMAIN D |-> D[id]] /\ DOMAIN D \subseteq Ids
      BY <1>1, <2>1 DEF ScanInv, Dated, ClassesInv
    <2>3. FHeap!ProbesEnd(h) /\ FHeap!AllFound(h)
      BY <2>2, TableShows
    <2>4. FHeap!ProbesEnd(g) /\ FHeap!AllFound(g)
      BY <2>2, TableShows
    <2> QED BY <2>1, <2>3, <2>4, SameTable DEF TablesSearchable
  <1>2. ScanInv /\ ClassesInv => TablesSearchable
    BY <1>1
  <1> QED BY <1>2, ClassesInvariance, PTL
=============================================================================
